---- MODULE Spec2Model ----
(***************************************************************************)
(* Model of the content generation workflow of app/services/               *)
(* content_workflow.py (ContentGenerationWorkflow and ContentScheduler),   *)
(* with the Article aggregate of app/models/domain.py and the             *)
(* KnowledgeBaseService collaborator as the workflow sees it (Spec);       *)
(* of KnowledgeBaseService.search and its result cache (KbSpec); of the    *)
(* cache of app/services/cache.py: MemoryBackend (HotSpec), CacheManager   *)
(* over both backends (ManagerSpec, PatternSpec); of Topic.hash and the   *)
(* dedup of candidate topics (TopicSpec); of topic ranking and selection   *)
(* (SelectSpec) and _check_existing_content (GateSpec); of                 *)
(* QualityMetrics.overall_score (QualitySpec) and the methods of Article   *)
(* (ArticleSpec); of the retry loops of financial_wisdom_service.py        *)
(* (RetrySpec); of the trending aggregations of data_collection.py and    *)
(* knowledge_base.py (TrendSpec); of AIContentGenerator's generation cache *)
(* (GeneratorSpec) and AnthropicModel's daily request limit                *)
(* (AnthropicSpec), both of ai_content_generation.py; and of               *)
(* ContentScheduler with any number of its loops (ScheduleSpec).           *)
(*                                                                         *)
(* Units: quality scores are whole points of the 0..10 scale, trend and    *)
(* engagement scores are tenths of a point, composite topic scores are     *)
(* hundredths of a point, costs are thousandths of a dollar.               *)
(* Keywords are numbered: 1 = "bitcoin", 2 = "budget", 3 = "gardening".    *)
(* In alphabetical order; 3 and above have no entry in                     *)
(* high_engagement_keywords.                                               *)
(***************************************************************************)
EXTENDS Integers, Sequences, FiniteSets, TLC

(* ---------------------------- bounds ----------------------------------- *)

\* runs of run_daily_generation started on the one workflow instance
MaxRuns == 2
\* overall scores an assessment can return: 6..MaxScore
MaxScore == 8
\* configured settings.content.quality_threshold: 7..MaxThreshold
MaxThreshold == 8

(* ----------------------- program constants ----------------------------- *)

max_regeneration_attempts == 2
ApproveMinScore == 8
TopTopics == 5
SelectSearchLimit == 10
GenerationCost == 15
CustomizationCost == 2
RegenerationCost == 10
DefaultEngagement == 60

Scores == 6..MaxScore
Thresholds == 7..MaxThreshold

\* the callers of run_daily_generation on the shared workflow instance:
\* the ContentScheduler loop, and an on-demand trigger (generate_now, or the
\* API's generate_content_now)
Tasks == {"sched", "now"}

\* quality_metrics is None
NoScore == 0 - 1
NoArticle == [status |-> "none", quality_metrics |-> NoScore, content |-> 0,
              published_at |-> FALSE]
NoResult == [kind |-> "none"]
NoTopic == [keywords |-> <<>>, category |-> "none", trend_score |-> 0]

(* ------------------------------ topics --------------------------------- *)

Topic(kws, cat, trend) == [keywords |-> kws, category |-> cat, trend_score |-> trend]

\* what KnowledgeBaseService.get_trending_topics can hand to the workflow
KbTopicLists == { <<>>, << Topic(<<1>>, "finance", 90) >> }

\* what DataCollectionService.collect_trending_topics can hand to the workflow
\* (already sorted by trend_score, descending)
CollectedTopicLists == { <<>>,
                         << Topic(<<1>>, "finance", 60), Topic(<<2>>, "finance", 40) >> }

\* tuple(sorted(topic.keywords))
topic_key(t) == SortSeq(t.keywords, LAMBDA a, b : a < b)

\* the dedup loop of _analyze_trending_topics: first occurrence of a key wins
RECURSIVE Deduplicate(_, _, _)
Deduplicate(all_topics, unique_topics, seen_keywords) ==
    IF all_topics = <<>> THEN unique_topics
    ELSE LET topic == Head(all_topics)
             key == topic_key(topic)
         IN  IF key \in seen_keywords
             THEN Deduplicate(Tail(all_topics), unique_topics, seen_keywords)
             ELSE Deduplicate(Tail(all_topics), Append(unique_topics, topic),
                              seen_keywords \cup {key})

\* list.sort(key=..., reverse=True) on records [k, v]: descending by k, and
\* stable (equal keys keep their original order)
RECURSIVE InsertDesc(_, _)
InsertDesc(sorted, x) ==
    IF sorted = <<>> THEN <<x>>
    ELSE IF Head(sorted).k >= x.k
         THEN <<Head(sorted)>> \o InsertDesc(Tail(sorted), x)
         ELSE <<x>> \o sorted

RECURSIVE SortDesc(_, _)
SortDesc(rest, sorted) ==
    IF rest = <<>> THEN sorted
    ELSE SortDesc(Tail(rest), InsertDesc(sorted, Head(rest)))

\* unique_topics.sort(key=lambda t: t.trend_score, reverse=True)
SortByTrend(topics) ==
    LET keyed == [i \in 1..Len(topics) |-> [k |-> topics[i].trend_score, v |-> topics[i]]]
        s == SortDesc(keyed, <<>>)
    IN  [i \in 1..Len(s) |-> s[i].v]

\* the whole list, with no cap
NoCut(topics) == topics

\* unique_topics[:5]
TopCut(topics) == IF Len(topics) <= TopTopics THEN topics ELSE SubSeq(topics, 1, TopTopics)

\* high_engagement_keywords.get(keyword.lower(), 6.0)
KeywordEngagement(kw) == IF kw = 1 THEN 90 ELSE IF kw = 2 THEN 75 ELSE DefaultEngagement

RECURSIVE SumSeq(_)
SumSeq(s) == IF s = <<>> THEN 0 ELSE Head(s) + SumSeq(Tail(s))

\* _assess_engagement_potential, in tenths: sum(scores) / len(scores), exact
\* whenever the sum is a multiple of the length (always, for one keyword)
assess_engagement_potential(topic) ==
    IF topic.keywords = <<>> THEN DefaultEngagement
    ELSE SumSeq([i \in 1..Len(topic.keywords) |-> KeywordEngagement(topic.keywords[i])])
         \div Len(topic.keywords)

\* final_score of _select_optimal_topic, in hundredths of a point
final_score(topic, hits) ==
    LET content_gap_score == IF SelectSearchLimit - hits > 0 THEN SelectSearchLimit - hits ELSE 0
    IN  topic.trend_score * 4 + content_gap_score * 30 + assess_engagement_potential(topic) * 3

(* ------------------------------ state ---------------------------------- *)

VARIABLES
    quality_threshold,  \* ContentGenerationWorkflow.quality_threshold
    daily_stats,        \* ContentGenerationWorkflow.daily_stats
    is_running,         \* ContentScheduler.is_running
    runs,               \* runs started so far
    pc,                 \* each task's position
    kb_topics,          \* _analyze_trending_topics: kb_topics, per task
    trending_topics,    \* run_daily_generation: trending_topics, per task
    scored_topics,      \* _select_optimal_topic: scored_topics, per task
    selected_topic,     \* run_daily_generation: selected_topic, per task
    existing_content,   \* run_daily_generation: existing_content is not None
    article,            \* the run's Article, per task
    stored,             \* _store_content: the value of success, per task
    result,             \* the WorkflowResult returned by the task's last run
    obs                 \* per task, what the run's collaborators saw of it

workflow_vars == << quality_threshold, daily_stats, is_running, runs, pc,
                    kb_topics, trending_topics, scored_topics, selected_topic,
                    existing_content, article, stored, result, obs >>

\* KnowledgeBaseService and the index behind it (knowledge_base.py)
VARIABLES
    es_index,             \* documents of the processed-content index
    kb_cache,             \* KnowledgeBaseService._cache
    kb_cache_timestamps,  \* KnowledgeBaseService._cache_timestamps
    kb_now,               \* datetime.now() as the service reads it, in hours
    kb_last               \* the last call of the service and what it returned

kb_vars == << es_index, kb_cache, kb_cache_timestamps, kb_now, kb_last >>

\* CacheManager and its two backends (cache.py)
VARIABLES
    cache_now,     \* datetime.now() as the cache reads it, in ticks
    memory_cache,  \* MemoryBackend.cache: its entries in dict order
    redis_data,    \* the shared tier: data key -> value and expiry
    redis_meta,    \* the shared tier: data key -> expiry of its "<key>:meta" hash
    cache_stats,   \* CacheManager.stats
    cache_last,    \* the last call that returned and what it returned
    reader         \* a get_multi_layer in flight

cache_vars == << cache_now, memory_cache, redis_data, redis_meta, cache_stats,
                 cache_last, reader >>

\* Topic lists and what is computed from them (domain.py, content_workflow.py)
VARIABLES
    candidates,     \* _analyze_trending_topics: all_topics
    deduplicated,   \* _analyze_trending_topics: unique_topics before the sort
    fingerprints,   \* Topic.hash() of each candidate
    selection       \* _select_optimal_topic: its argument, its locals, and
                    \* the queries it sent to KnowledgeBaseService.search

topic_vars == << candidates, deduplicated, fingerprints, selection >>

\* Functions and objects modelled on their own
VARIABLES
    gate            \* _check_existing_content: its argument, the configured
                    \* similarity_threshold, what the search gave, the result
    ,
    quality         \* a QualityMetrics object, and the value read from its
                    \* overall_score property
    ,
    retry           \* AIContentGenerationService: the request being served
                    \* (function, loop index, delay, the model calls made and
                    \* the sleeps taken for it, what was returned)
    ,
    doc             \* an Article object used through its own methods, with
                    \* the last method called on it and whether it raised
    ,
    trending        \* trending aggregation: keyword_counts in insertion
                    \* order (or the buckets of the aggregation), and the
                    \* list of topics returned
    ,
    generator       \* AIContentGenerator: _generation_cache and
                    \* _cache_timestamps, the clock in days, and the last
                    \* call of generate_article_content
    ,
    anthropic       \* AnthropicModel: _daily_usage and _last_reset, the
                    \* date (days since construction), the callers of
                    \* generate_content awaiting the provider, the requests
                    \* the provider received on each date (sent[d + 1] for
                    \* date d) and whether one was sent with the limit
                    \* reached, the calls made, the last call to end
    ,
    scheduler       \* ContentScheduler on its own: is_running, the clock
                    \* in half days, the start_daily_schedule coroutines
                    \* (loops), the runs started for each scheduled time
                    \* (triggered), whether stop() is the last call made
                    \* (stopped) and whether a run started then (late)

unit_vars == << gate, quality, retry, doc, trending, generator, anthropic,
               scheduler >>

\* the variables the workflow leaves alone
service_vars == << kb_vars, cache_vars, topic_vars, unit_vars >>

vars == << workflow_vars, service_vars >>

\* what a call of the knowledge base service leaves alone
outside_kb == << workflow_vars, cache_vars, topic_vars, unit_vars >>
\* what a call of the cache leaves alone
outside_cache == << workflow_vars, kb_vars, topic_vars, unit_vars >>
\* what a computation on topics leaves alone
outside_topics == << workflow_vars, kb_vars, cache_vars, unit_vars >>
\* what the functions modelled on their own leave alone
outside_units == << workflow_vars, kb_vars, cache_vars, topic_vars >>
outside_gate == << outside_units, quality, retry, doc, trending, generator,
                   anthropic, scheduler >>
outside_quality == << outside_units, gate, retry, doc, trending, generator,
                      anthropic, scheduler >>
outside_retry == << outside_units, gate, quality, doc, trending, generator,
                    anthropic, scheduler >>
outside_doc == << outside_units, gate, quality, retry, trending, generator,
                  anthropic, scheduler >>
outside_trend == << outside_units, gate, quality, retry, doc, generator,
                    anthropic, scheduler >>
outside_generator == << outside_units, gate, quality, retry, doc, trending,
                        anthropic, scheduler >>
outside_anthropic == << outside_units, gate, quality, retry, doc, trending,
                        generator, scheduler >>
outside_scheduler == << outside_units, gate, quality, retry, doc, trending,
                        generator, anthropic >>

\* a dict with no entries
EmptyDict == [k \in {} |-> 0]

\* the service as constructed, before any call
KbIdle ==
    /\ es_index = {}
    /\ kb_cache = EmptyDict
    /\ kb_cache_timestamps = EmptyDict
    /\ kb_now = 0
    /\ kb_last = [op |-> "none"]

\* the cache manager as constructed, before any call
CacheIdle ==
    /\ cache_now = 0
    /\ memory_cache = << >>
    /\ redis_data = EmptyDict
    /\ redis_meta = EmptyDict
    /\ cache_stats = [hits |-> 0, misses |-> 0, sets |-> 0, deletes |-> 0]
    /\ cache_last = [op |-> "none"]
    /\ reader = [pc |-> "idle"]

\* _select_optimal_topic not called yet
NoSelection == [pc |-> "idle", topics |-> << >>, scored_topics |-> << >>,
                searches |-> << >>, selected_topic |-> NoTopic]

\* _check_existing_content not called
NoGate == [pc |-> "idle"]

\* no request made to the AIContentGenerationService yet
NoRequest == [fn |-> "none", attempt |-> 0, retry_delay |-> 0, calls |-> << >>,
              slept |-> << >>, result |-> "none", served |-> 0]

\* no Article object at hand
NoDoc == [article |-> NoArticle, op |-> "none", raised |-> FALSE]

\* no trending aggregation asked for
NoTrend == [pc |-> "idle", source |-> "none", keyword_counts |-> << >>,
            topics |-> << >>]

\* AIContentGenerator as constructed: nothing cached, nothing asked
NoGeneration == [cache |-> EmptyDict, stamps |-> EmptyDict, now |-> 0,
                 last |-> [op |-> "none"]]

\* AnthropicModel as constructed on day 0, no call made
NoUsage == [daily_usage |-> 0, last_reset |-> 0, today |-> 0, awaiting |-> {},
            sent |-> << 0 >>, made |-> 0, sent_at_limit |-> FALSE,
            last |-> [op |-> "none"]]

\* ContentScheduler as constructed: no coroutine started
NoSchedule == [is_running |-> FALSE, now |-> 0, loops |-> << >>,
               triggered |-> EmptyDict, stopped |-> FALSE, late |-> FALSE]

\* no function modelled on its own has been called
UnitIdle ==
    /\ gate = NoGate
    /\ quality = [pc |-> "idle"]
    /\ retry = NoRequest
    /\ generator = NoGeneration
    /\ anthropic = NoUsage
    /\ scheduler = NoSchedule
    /\ doc = NoDoc
    /\ trending = NoTrend

\* no topic list at hand
TopicIdle ==
    /\ candidates = << >>
    /\ deduplicated = << >>
    /\ fingerprints = << >>
    /\ selection = NoSelection

\* assess_calls: calls of QualityAssessor.assess for the run's article;
\* all_below: every one of them returned a score below the threshold;
\* checks_at_gate: daily_stats.quality_checks when _ensure_quality was entered;
\* regenerations: calls of regenerate_with_feedback for the run's article;
\* index_failed: the run was told of a KnowledgeIndex failure (a search that
\*   came back empty because the backend failed, or a failed write)
NoObs == [assess_calls |-> 0, all_below |-> TRUE, checks_at_gate |-> 0,
          regenerations |-> 0, index_failed |-> FALSE]

WorkflowInit ==
    /\ quality_threshold \in Thresholds
    /\ daily_stats = [topics_analyzed |-> 0, content_generated |-> 0,
                      quality_checks |-> 0, cache_hits |-> 0, total_cost |-> 0]
    /\ is_running = FALSE
    /\ runs = 0
    /\ pc = [t \in Tasks |-> IF t = "sched" THEN "off" ELSE "idle"]
    /\ kb_topics = [t \in Tasks |-> <<>>]
    /\ trending_topics = [t \in Tasks |-> <<>>]
    /\ scored_topics = [t \in Tasks |-> <<>>]
    /\ selected_topic = [t \in Tasks |-> NoTopic]
    /\ existing_content = [t \in Tasks |-> FALSE]
    /\ article = [t \in Tasks |-> NoArticle]
    /\ stored = [t \in Tasks |-> "none"]
    /\ result = [t \in Tasks |-> NoResult]
    /\ obs = [t \in Tasks |-> NoObs]

(* ------------------------------ Article -------------------------------- *)

\* Article(..., status=ArticleStatus.GENERATED, ...) with content
NewArticle == [status |-> "generated", quality_metrics |-> NoScore, content |-> 1,
               published_at |-> FALSE]

\* Article.approve_for_publishing: raises, or sets APPROVED
approve_for_publishing(a) ==
    IF a.quality_metrics = NoScore
    THEN [raised |-> TRUE, article |-> a]
    ELSE IF a.quality_metrics < ApproveMinScore
         THEN [raised |-> TRUE, article |-> a]
         ELSE [raised |-> FALSE, article |-> [a EXCEPT !.status = "approved"]]

\* a publish that does not test the status
publish_unguarded(a) ==
    [raised |-> FALSE,
     article |-> [a EXCEPT !.status = "published", !.published_at = TRUE]]

\* Article.publish: raises, or sets PUBLISHED and published_at
publish(a) ==
    IF a.status # "approved"
    THEN [raised |-> TRUE, article |-> a]
    ELSE [raised |-> FALSE,
          article |-> [a EXCEPT !.status = "published", !.published_at = TRUE]]

(* --------------------------- WorkflowResult ---------------------------- *)

NoMetrics == [kind |-> "none"]

\* WorkflowResult(success=False, error_message="No trending topics found")
NoTopicsResult ==
    [kind |-> "returned", success |-> FALSE, has_article |-> FALSE,
     error_message |-> "No trending topics found", metrics |-> NoMetrics,
     cost_estimate |-> 0]

\* WorkflowResult(success=False, error_message=str(e), metrics=self.daily_stats):
\* metrics is the workflow's own dict, not a copy
ExceptionResult(msg, stats) ==
    [kind |-> "returned", success |-> FALSE, has_article |-> FALSE,
     error_message |-> msg, metrics |-> [kind |-> "ref", stats |-> stats],
     cost_estimate |-> 0]

\* WorkflowResult(success=True, article=article, metrics={..., **self.daily_stats},
\*                cost_estimate=self.daily_stats['total_cost'])
SuccessResult(a, cached, stats) ==
    [kind |-> "returned", success |-> TRUE, has_article |-> TRUE,
     error_message |-> "",
     metrics |-> [kind |-> "copy", stats |-> stats,
                  final_quality_score |-> a.quality_metrics,
                  content_cached |-> cached],
     cost_estimate |-> stats.total_cost]

(* --------------------------- the triggers ------------------------------ *)

InRun == {"kb", "collect", "select", "check", "customize", "sources", "generate",
          "assess", "suggest", "regen", "reassess", "store"}

\* entry of run_daily_generation up to its first await
BeginRun(t) ==
    /\ runs < MaxRuns
    /\ runs' = runs + 1
    /\ pc' = [pc EXCEPT ![t] = "kb"]
    /\ kb_topics' = [kb_topics EXCEPT ![t] = <<>>]
    /\ trending_topics' = [trending_topics EXCEPT ![t] = <<>>]
    /\ scored_topics' = [scored_topics EXCEPT ![t] = <<>>]
    /\ selected_topic' = [selected_topic EXCEPT ![t] = NoTopic]
    /\ existing_content' = [existing_content EXCEPT ![t] = FALSE]
    /\ article' = [article EXCEPT ![t] = NoArticle]
    /\ stored' = [stored EXCEPT ![t] = "none"]
    /\ result' = [result EXCEPT ![t] = NoResult]
    /\ obs' = [obs EXCEPT ![t] = NoObs]
    /\ UNCHANGED << quality_threshold, daily_stats >>

\* ContentScheduler.generate_now / the API's generate_content_now
generate_now ==
    /\ pc["now"] \in {"idle", "done"}
    /\ UNCHANGED service_vars
    /\ BeginRun("now")
    /\ UNCHANGED is_running

\* ContentScheduler.start_daily_schedule up to its first sleep
start_daily_schedule ==
    /\ pc["sched"] = "off"
    /\ UNCHANGED service_vars
    /\ is_running' = TRUE
    /\ pc' = [pc EXCEPT !["sched"] = "sleep"]
    /\ UNCHANGED << quality_threshold, daily_stats, runs, kb_topics, trending_topics,
                    scored_topics, selected_topic, existing_content, article,
                    stored, result, obs >>

\* the scheduler's sleep ends: run if still running, else the loop exits
scheduler_wake ==
    /\ pc["sched"] = "sleep"
    /\ UNCHANGED service_vars
    /\ IF is_running
       THEN BeginRun("sched")
       ELSE /\ pc' = [pc EXCEPT !["sched"] = "off"]
            /\ UNCHANGED << quality_threshold, daily_stats, runs, kb_topics,
                            trending_topics, scored_topics, selected_topic,
                            existing_content, article, stored, result, obs >>
    /\ UNCHANGED is_running

\* the scheduled run has returned: the result is logged and dropped, then
\* the while test
scheduler_loop ==
    /\ pc["sched"] = "done"
    /\ UNCHANGED service_vars
    /\ pc' = [pc EXCEPT !["sched"] = IF is_running THEN "sleep" ELSE "off"]
    /\ article' = [article EXCEPT !["sched"] = NoArticle]
    /\ stored' = [stored EXCEPT !["sched"] = "none"]
    /\ result' = [result EXCEPT !["sched"] = NoResult]
    /\ obs' = [obs EXCEPT !["sched"] = NoObs]
    /\ UNCHANGED << quality_threshold, daily_stats, is_running, runs, kb_topics,
                    trending_topics, scored_topics, selected_topic, existing_content >>

\* ContentScheduler.stop
stop ==
    /\ is_running
    /\ UNCHANGED service_vars
    /\ is_running' = FALSE
    /\ UNCHANGED << quality_threshold, daily_stats, runs, pc, kb_topics,
                    trending_topics, scored_topics, selected_topic, existing_content,
                    article, stored, result, obs >>

(* ------------------------ run_daily_generation ------------------------- *)
\* One action per await of the run: the awaited collaborator call completes
\* and the run goes on to its next await (or returns).

\* what a KnowledgeIndex search for content can come back with: the number of
\* hits, or [] after a backend failure (search_content swallows the error)
SearchHits == {0, SelectSearchLimit}

Called(o, failed) == [o EXCEPT !.index_failed = @ \/ failed]

\* _analyze_trending_topics: await knowledge_base.get_trending_topics
analyze_kb(t) ==
    /\ pc[t] = "kb"
    /\ UNCHANGED service_vars
    /\ \E topics \in KbTopicLists : kb_topics' = [kb_topics EXCEPT ![t] = topics]
    /\ pc' = [pc EXCEPT ![t] = "collect"]
    /\ UNCHANGED << quality_threshold, daily_stats, is_running, runs, trending_topics,
                    scored_topics, selected_topic, existing_content, article,
                    stored, result, obs >>

\* _analyze_trending_topics after await data_collector.collect_trending_topics,
\* then run_daily_generation's test of the list
analyze_collect(t) ==
    /\ pc[t] = "collect"
    /\ UNCHANGED service_vars
    /\ \E collection_topics \in CollectedTopicLists :
          LET all_topics == kb_topics[t] \o collection_topics
              unique_topics == SortByTrend(Deduplicate(all_topics, <<>>, {}))
              top == TopCut(unique_topics)
          IN  /\ daily_stats' = [daily_stats EXCEPT !.topics_analyzed = Len(unique_topics)]
              /\ trending_topics' = [trending_topics EXCEPT ![t] = top]
              /\ IF top = <<>>
                 THEN /\ result' = [result EXCEPT ![t] = NoTopicsResult]
                      /\ pc' = [pc EXCEPT ![t] = "done"]
                 ELSE /\ result' = result
                      /\ pc' = [pc EXCEPT ![t] = "select"]
    /\ kb_topics' = [kb_topics EXCEPT ![t] = <<>>]
    /\ UNCHANGED << quality_threshold, is_running, runs, scored_topics,
                    selected_topic, existing_content, article, stored, obs >>

\* _select_optimal_topic: one await knowledge_base.search per topic; after the
\* last one, sort by final score and take the first
select_search(t) ==
    /\ pc[t] = "select"
    /\ UNCHANGED service_vars
    /\ \E hits \in SearchHits :
          LET topic == trending_topics[t][Len(scored_topics[t]) + 1]
              scored == Append(scored_topics[t],
                               [k |-> final_score(topic, hits), v |-> topic])
          IN  IF Len(scored) = Len(trending_topics[t])
              THEN /\ selected_topic' =
                         [selected_topic EXCEPT ![t] = SortDesc(scored, <<>>)[1].v]
                   /\ scored_topics' = [scored_topics EXCEPT ![t] = <<>>]
                   /\ trending_topics' = [trending_topics EXCEPT ![t] = <<>>]
                   /\ pc' = [pc EXCEPT ![t] = "check"]
              ELSE /\ scored_topics' = [scored_topics EXCEPT ![t] = scored]
                   /\ UNCHANGED << selected_topic, trending_topics, pc >>
    /\ UNCHANGED << quality_threshold, daily_stats, is_running, runs, kb_topics,
                    existing_content, article, stored, result, obs >>

\* _check_existing_content: await knowledge_base.search, then the similarity
\* test; a failed search gives [] and so no existing content
check_existing(t) ==
    /\ pc[t] = "check"
    /\ UNCHANGED service_vars
    /\ \E similar \in BOOLEAN, failed \in BOOLEAN :
          /\ failed => ~similar
          /\ existing_content' = [existing_content EXCEPT ![t] = similar]
          /\ obs' = [obs EXCEPT ![t] = Called(@, failed)]
          /\ pc' = [pc EXCEPT ![t] = IF similar THEN "customize" ELSE "sources"]
    /\ UNCHANGED << quality_threshold, daily_stats, is_running, runs, kb_topics,
                    trending_topics, scored_topics, selected_topic, article,
                    stored, result >>

\* _customize_existing_content after await secondary_model.generate_content
\* (an error there is caught and costs nothing), then cache_hits += 1 and
\* _ensure_quality up to its await of assess
customize_existing(t) ==
    /\ pc[t] = "customize"
    /\ UNCHANGED service_vars
    /\ \E ok \in BOOLEAN :
          daily_stats' = [daily_stats EXCEPT
                            !.total_cost = IF ok THEN @ + CustomizationCost ELSE @,
                            !.cache_hits = @ + 1]
    /\ article' = [article EXCEPT ![t] = NewArticle]
    /\ obs' = [obs EXCEPT ![t].checks_at_gate = daily_stats.quality_checks]
    /\ pc' = [pc EXCEPT ![t] = "assess"]
    /\ UNCHANGED << quality_threshold, is_running, runs, kb_topics, trending_topics,
                    scored_topics, selected_topic, existing_content, stored, result >>

\* _get_source_materials: await knowledge_base.search
get_source_materials(t) ==
    /\ pc[t] = "sources"
    /\ UNCHANGED service_vars
    /\ pc' = [pc EXCEPT ![t] = "generate"]
    /\ UNCHANGED << quality_threshold, daily_stats, is_running, runs, kb_topics,
                    trending_topics, scored_topics, selected_topic, existing_content,
                    article, stored, result, obs >>

\* _generate_new_content after await ai_generator.generate_article_content,
\* then content_generated += 1 and _ensure_quality up to its await of assess
generate_new_content(t) ==
    /\ pc[t] = "generate"
    /\ UNCHANGED service_vars
    /\ daily_stats' = [daily_stats EXCEPT !.total_cost = @ + GenerationCost,
                                          !.content_generated = @ + 1]
    /\ article' = [article EXCEPT ![t] = NewArticle]
    /\ obs' = [obs EXCEPT ![t].checks_at_gate = daily_stats.quality_checks]
    /\ pc' = [pc EXCEPT ![t] = "assess"]
    /\ UNCHANGED << quality_threshold, is_running, runs, kb_topics, trending_topics,
                    scored_topics, selected_topic, existing_content, stored, result >>

(* --------------------------- _ensure_quality --------------------------- *)

\* self.daily_stats['quality_checks'] <= self.max_regeneration_attempts
may_regenerate(stats) == stats.quality_checks <= max_regeneration_attempts

\* the end of _ensure_quality ("Approve if quality is sufficient") and the run
\* up to its await of store_processed_content; an exception of
\* approve_for_publishing goes to run_daily_generation's except clause
approve_if_sufficient(t, a, stats, o) ==
    /\ daily_stats' = stats
    /\ IF a.quality_metrics >= quality_threshold
       THEN LET r == approve_for_publishing(a)
            IN  IF r.raised
                THEN /\ article' = [article EXCEPT ![t] = a]
                     /\ obs' = [obs EXCEPT ![t] = o]
                     /\ result' = [result EXCEPT ![t] =
                            ExceptionResult("Quality score below threshold", stats)]
                     /\ selected_topic' = [selected_topic EXCEPT ![t] = NoTopic]
                     /\ existing_content' = [existing_content EXCEPT ![t] = FALSE]
                     /\ pc' = [pc EXCEPT ![t] = "done"]
                ELSE /\ article' = [article EXCEPT ![t] = r.article]
                     /\ obs' = [obs EXCEPT ![t] = o]
                     /\ pc' = [pc EXCEPT ![t] = "store"]
                     /\ UNCHANGED << result, selected_topic, existing_content >>
       ELSE /\ article' = [article EXCEPT ![t] = a]
            /\ obs' = [obs EXCEPT ![t] = o]
            /\ pc' = [pc EXCEPT ![t] = "store"]
            /\ UNCHANGED << result, selected_topic, existing_content >>

Assessed(o, score) ==
    [o EXCEPT !.assess_calls = @ + 1,
                             !.all_below = @ /\ score < quality_threshold]

\* _ensure_quality after the first await quality_assessor.assess
assess(t) ==
    /\ pc[t] = "assess"
    /\ UNCHANGED service_vars
    /\ \E score \in Scores :
          LET a == [article[t] EXCEPT !.quality_metrics = score,
                                      !.status = "quality_check"]
              stats == [daily_stats EXCEPT !.quality_checks = @ + 1]
              o == Assessed(obs[t], score)
          IN  IF score < quality_threshold /\ may_regenerate(stats)
              THEN /\ article' = [article EXCEPT ![t] = a]
                   /\ daily_stats' = stats
                   /\ obs' = [obs EXCEPT ![t] = o]
                   /\ pc' = [pc EXCEPT ![t] = "suggest"]
                   /\ UNCHANGED << result, selected_topic, existing_content >>
              ELSE approve_if_sufficient(t, a, stats, o)
    /\ UNCHANGED << quality_threshold, is_running, runs, kb_topics, trending_topics,
                    scored_topics, stored >>

\* _ensure_quality after await quality_assessor.get_improvement_suggestions
improvement_suggestions(t) ==
    /\ pc[t] = "suggest"
    /\ UNCHANGED service_vars
    /\ pc' = [pc EXCEPT ![t] = "regen"]
    /\ UNCHANGED << quality_threshold, daily_stats, is_running, runs, kb_topics,
                    trending_topics, scored_topics, selected_topic, existing_content,
                    article, stored, result, obs >>

\* _ensure_quality after await ai_generator.regenerate_with_feedback, which
\* returns new content, or the original content when the model call failed
regenerate_with_feedback(t) ==
    /\ pc[t] = "regen"
    /\ UNCHANGED service_vars
    /\ \E ok \in BOOLEAN :
          article' = [article EXCEPT ![t].content = IF ok THEN @ + 1 ELSE @]
    /\ obs' = [obs EXCEPT ![t].regenerations = @ + 1]
    /\ pc' = [pc EXCEPT ![t] = "reassess"]
    /\ UNCHANGED << quality_threshold, daily_stats, is_running, runs, kb_topics,
                    trending_topics, scored_topics, selected_topic, existing_content,
                    stored, result >>

\* _ensure_quality after the second await quality_assessor.assess
reassess(t) ==
    /\ pc[t] = "reassess"
    /\ UNCHANGED service_vars
    /\ \E score \in Scores :
          LET a == [article[t] EXCEPT !.quality_metrics = score]
              stats == [daily_stats EXCEPT !.quality_checks = @ + 1,
                                           !.total_cost = @ + RegenerationCost]
              o == Assessed(obs[t], score)
          IN  approve_if_sufficient(t, a, stats, o)
    /\ UNCHANGED << quality_threshold, is_running, runs, kb_topics, trending_topics,
                    scored_topics, stored >>

(* ---------------------------- _store_content --------------------------- *)

\* _store_content after await knowledge_base.store_processed_content (False
\* when the index write failed), then the metrics and the return
store_content(t) ==
    /\ pc[t] = "store"
    /\ UNCHANGED service_vars
    /\ \E success \in BOOLEAN :
          /\ stored' = [stored EXCEPT ![t] = IF success THEN "ok" ELSE "failed"]
          /\ obs' = [obs EXCEPT ![t] = Called(@, ~success)]
    /\ result' = [result EXCEPT ![t] =
                     SuccessResult(article[t], existing_content[t], daily_stats)]
    /\ selected_topic' = [selected_topic EXCEPT ![t] = NoTopic]
    /\ existing_content' = [existing_content EXCEPT ![t] = FALSE]
    /\ pc' = [pc EXCEPT ![t] = "done"]
    /\ UNCHANGED << quality_threshold, daily_stats, is_running, runs, kb_topics,
                    trending_topics, scored_topics, article >>

(* ------------------------- the caller's Article ------------------------ *)

\* Article.publish called on the article of the WorkflowResult that the
\* on-demand caller was handed
article_publish ==
    /\ pc["now"] = "done"
    /\ UNCHANGED service_vars
    /\ result["now"].kind = "returned"
    /\ result["now"].has_article
    /\ ~publish(article["now"]).raised
    /\ article' = [article EXCEPT !["now"] = publish(@).article]
    /\ UNCHANGED << quality_threshold, daily_stats, is_running, runs, pc, kb_topics,
                    trending_topics, scored_topics, selected_topic, existing_content,
                    stored, result, obs >>

(* --------------------------- specification ----------------------------- *)

Step(t) ==
    \/ analyze_kb(t)
    \/ analyze_collect(t)
    \/ select_search(t)
    \/ check_existing(t)
    \/ customize_existing(t)
    \/ get_source_materials(t)
    \/ generate_new_content(t)
    \/ assess(t)
    \/ improvement_suggestions(t)
    \/ regenerate_with_feedback(t)
    \/ reassess(t)
    \/ store_content(t)

\* the workflow, with the services below left as constructed
Init == WorkflowInit /\ KbIdle /\ CacheIdle /\ UnitIdle /\ TopicIdle

Next ==
    \/ generate_now
    \/ start_daily_schedule
    \/ scheduler_wake
    \/ scheduler_loop
    \/ stop
    \/ article_publish
    \/ \E t \in Tasks : Step(t)

Spec == Init /\ [][Next]_vars

\* the workflow as constructed with the default threshold, never triggered
WorkflowIdle == WorkflowInit /\ quality_threshold = MaxThreshold

(* ------------------------------ claims --------------------------------- *)

\* _ensure_quality has finished for the run of task t
GateEnded(t) ==
    /\ pc[t] \in {"store", "done"}
    /\ obs[t].assess_calls > 0

\* run_daily_generation has returned to task t
Returned(t) == pc[t] = "done" /\ result[t].kind = "returned"

\* the last assessment of the run's article is below the threshold
BelowThreshold(t) ==
    /\ article[t].quality_metrics # NoScore
    /\ article[t].quality_metrics < quality_threshold

\* the run ended in run_daily_generation's except clause
Raised(t) == Returned(t) /\ result[t].metrics.kind = "ref"

\* C1: quality gate termination. When every assessment of a gate that started
\* on a fresh workflow (no quality check counted before, none counted by
\* another run meanwhile) is below the threshold, the gate ends after exactly
\* max_regeneration_attempts + 1 assessment calls, the article not approved.
C1_GateTermination ==
    \A t \in Tasks :
        ( /\ GateEnded(t)
          /\ obs[t].all_below
          /\ obs[t].checks_at_gate = 0
          /\ daily_stats.quality_checks = obs[t].assess_calls )
        => ( /\ obs[t].assess_calls = max_regeneration_attempts + 1
             /\ article[t].status \notin {"approved", "published"} )

\* C2: no Article has status PUBLISHED unless the KnowledgeIndex write of its
\* processed content returned success before.
C2_PublishedOnlyAfterIndexed ==
    \A t \in Tasks : article[t].status = "published" => stored[t] = "ok"

\* C3: a run whose last assessment is below the threshold (Rejected) returns
\* a WorkflowResult with success = false.
C3_RejectedReportedAsFailure ==
    \A t \in Tasks :
        (Returned(t) /\ GateEnded(t) /\ BelowThreshold(t)) => ~result[t].success

\* C4: once the gate has ended, the article is approved, with no error
\* raised, if and only if its overall score is at least quality_threshold.
C4_ApprovalFollowsThreshold ==
    \A t \in Tasks :
        GateEnded(t) =>
            ( (article[t].status \in {"approved", "published"} /\ ~Raised(t))
              <=> article[t].quality_metrics >= quality_threshold )

\* C5: the gate gives up on an article (ends with its last assessment below
\* the threshold) only when max_regeneration_attempts regenerations have been
\* made for that article, in the first run and in every later one.
C5_RegenerationCountPerArticle ==
    \A t \in Tasks :
        (GateEnded(t) /\ BelowThreshold(t))
        => obs[t].regenerations >= max_regeneration_attempts

\* C6: a run that has returned with its article through the gate and the
\* KnowledgeIndex write successful has the article PUBLISHED, published_at set.
C6_ApprovedRunPublishes ==
    \A t \in Tasks :
        ( /\ Returned(t)
          /\ GateEnded(t)
          /\ article[t].quality_metrics >= quality_threshold
          /\ ~Raised(t)
          /\ stored[t] = "ok" )
        => (article[t].status = "published" /\ article[t].published_at)

\* C7: at most one run of run_daily_generation is active at any time.
C7_OneActiveRun == Cardinality({t \in Tasks : pc[t] \in InRun}) <= 1

\* C8: a run that met a KnowledgeIndex failure (a search or the write)
\* returns success = false with the metrics gathered so far, and its article
\* is not PUBLISHED.
C8_IndexFailureFailsRun ==
    \A t \in Tasks :
        (Returned(t) /\ obs[t].index_failed)
        => ( /\ ~result[t].success
             /\ result[t].metrics.kind # "none"
             /\ article[t].status # "published" )

\* C9: every failed run returns a WorkflowResult with success = false, a
\* non-empty error message and the metrics gathered before the failure.
C9_FailedRunReport ==
    \A t \in Tasks :
        (Returned(t) /\ ~result[t].success)
        => (result[t].error_message # "" /\ result[t].metrics.kind # "none")

TerminalStatus == {"published", "archived"}

\* C10: once the scheduler's stop signal is raised, the collaborator call the
\* scheduled run is waiting for is its last: when it completes the run ends,
\* with no article left in a non-terminal status and with its metrics reported.
C10_Cancellation ==
    [][ (~is_running /\ Step("sched"))
        => ( /\ pc'["sched"] = "done"
             /\ article'["sched"].status \in TerminalStatus \cup {"none"}
             /\ result'["sched"].metrics.kind # "none" ) ]_vars

\* the amounts of the returned run of task t alone, as its own steps added
\* them (content_cached tells whether it reused existing content): one
\* quality check per assessment; one cache hit and the customization cost (if
\* the customization call succeeded) when existing content was reused, else
\* one content generated and the generation cost; the regeneration cost for
\* each re-assessment
RunCosts(t) ==
    LET again == RegenerationCost * (obs[t].assess_calls - 1)
    IN  IF result[t].metrics.content_cached THEN {again, CustomizationCost + again}
        ELSE {GenerationCost + again}

\* C37: the metrics and the cost_estimate of the WorkflowResult of a run that
\* succeeded are the amounts of that run: its quality_checks, cache_hits,
\* content_generated and total_cost hold nothing of other runs on the same
\* workflow instance.
C37_MetricsOfThisRun ==
    \A t \in Tasks :
        (Returned(t) /\ result[t].success)
            => /\ result[t].metrics.stats.quality_checks = obs[t].assess_calls
               /\ result[t].metrics.stats.cache_hits
                    = (IF result[t].metrics.content_cached THEN 1 ELSE 0)
               /\ result[t].metrics.stats.content_generated
                    = (IF result[t].metrics.content_cached THEN 0 ELSE 1)
               /\ result[t].metrics.stats.total_cost \in RunCosts(t)
               /\ result[t].cost_estimate \in RunCosts(t)

(* ------------- KnowledgeBaseService: search and its cache --------------- *)
(* Time is in hours.  A document of the index is [id, topic]; a query is   *)
(* the topic it asks for (the joined keywords with the category filter);   *)
(* a result list is the set of ids of the documents returned.              *)

\* documents the index comes to hold
MaxDocs == 2
\* the last hour the clock reaches
MaxKbClock == 2

\* KnowledgeBaseService._cache_ttl, hours
KbCacheTtl == 1
\* _cache_results: entries kept before the oldest is removed
KbCacheCapacity == 1000
\* _check_existing_content: limit of its search
CheckSearchLimit == 5

QueryTopics == {1, 2}
SearchLimits == {CheckSearchLimit, SelectSearchLimit}

Put(d, k, v) == [x \in DOMAIN d \cup {k} |-> IF x = k THEN v ELSE d[x]]
Drop(d, k) == [x \in DOMAIN d \ {k} |-> d[x]]

\* search: cache_key, the digest of query, filters and limit
search_cache_key(query, limit) == << query, limit >>

\* KnowledgeSearchEngine.search_content when the backend answers: the
\* documents on the topic (the index holds fewer than any limit asked)
search_content(index, query, limit) == {d.id : d \in {x \in index : x.topic = query}}

\* _get_from_cache: the value (None is the empty list: the caller tests its
\* truth only) and the cache it leaves
get_from_cache(cache, stamps, cache_key, now) ==
    IF cache_key \notin DOMAIN cache
    THEN [value |-> {}, cache |-> cache, stamps |-> stamps]
    ELSE IF now - stamps[cache_key] > KbCacheTtl
         THEN [value |-> {}, cache |-> Drop(cache, cache_key),
               stamps |-> Drop(stamps, cache_key)]
         ELSE [value |-> cache[cache_key], cache |-> cache, stamps |-> stamps]

\* _cache_results
cache_results(cache, stamps, cache_key, results, now) ==
    LET c == Put(cache, cache_key, results)
        s == Put(stamps, cache_key, now)
        oldest_key == CHOOSE k \in DOMAIN s : \A j \in DOMAIN s : s[k] <= s[j]
    IN  IF Cardinality(DOMAIN c) > KbCacheCapacity
        THEN [cache |-> Drop(c, oldest_key), stamps |-> Drop(s, oldest_key)]
        ELSE [cache |-> c, stamps |-> s]

\* KnowledgeBaseService.search(query, filters, limit), use_cache = True;
\* answered is whether the backend answers the search_content it may make
kb_search(query, limit, answered) ==
    LET cache_key == search_cache_key(query, limit)
        got == get_from_cache(kb_cache, kb_cache_timestamps, cache_key, kb_now)
        results == IF answered THEN search_content(es_index, query, limit) ELSE {}
        kept == IF results # {}
                THEN cache_results(got.cache, got.stamps, cache_key, results, kb_now)
                ELSE [cache |-> got.cache, stamps |-> got.stamps]
        indexed == search_content(es_index, query, limit)
    IN  IF got.value # {}
        THEN /\ kb_last' = [op |-> "search", limit |-> limit, indexed |-> indexed,
                            results |-> got.value, cached |-> TRUE, failed |-> FALSE]
             /\ UNCHANGED << es_index, kb_cache, kb_cache_timestamps, kb_now >>
        ELSE /\ kb_cache' = kept.cache
             /\ kb_cache_timestamps' = kept.stamps
             /\ kb_last' = [op |-> "search", limit |-> limit, indexed |-> indexed,
                            results |-> results, cached |-> FALSE,
                            failed |-> ~answered]
             /\ UNCHANGED << es_index, kb_now >>

\* KnowledgeBaseService.store_processed_content for a new article on the
\* topic: index_processed_content returns False when the write fails
kb_store(topic, written) ==
    /\ Cardinality(es_index) < MaxDocs
    /\ es_index' = IF written
                   THEN es_index \cup {[id |-> Cardinality(es_index) + 1,
                                        topic |-> topic]}
                   ELSE es_index
    /\ kb_last' = [op |-> "store", success |-> written]
    /\ UNCHANGED << kb_cache, kb_cache_timestamps, kb_now >>

\* KnowledgeBaseService.get_trending_topics(days=7, limit=10): the cached
\* list when _get_from_cache gives a non-empty one; else the list of the
\* search engine ([] when its search fails), which _cache_results stores
\* (its ttl argument is not used). A list is kept as the set of its keywords.
kb_get_trending_topics(topics) ==
    LET cache_key == << "trending_topics", 7, 10 >>
        held == cache_key \in DOMAIN kb_cache /\ kb_cache[cache_key] # {}
        age == IF held THEN kb_now - kb_cache_timestamps[cache_key] ELSE 0
        got == get_from_cache(kb_cache, kb_cache_timestamps, cache_key, kb_now)
        kept == cache_results(got.cache, got.stamps, cache_key, topics, kb_now)
    IN  IF got.value # {}
        THEN /\ kb_last' = [op |-> "trending", held |-> held, age |-> age,
                            queried |-> FALSE, results |-> got.value]
             /\ UNCHANGED << es_index, kb_cache, kb_cache_timestamps, kb_now >>
        ELSE /\ kb_cache' = kept.cache
             /\ kb_cache_timestamps' = kept.stamps
             /\ kb_last' = [op |-> "trending", held |-> held, age |-> age,
                            queried |-> TRUE, results |-> topics]
             /\ UNCHANGED << es_index, kb_now >>

\* an hour passes
kb_tick ==
    /\ kb_now < MaxKbClock
    /\ kb_now' = kb_now + 1
    /\ UNCHANGED << es_index, kb_cache, kb_cache_timestamps, kb_last >>

KbInit == WorkflowIdle /\ KbIdle /\ CacheIdle /\ UnitIdle /\ TopicIdle

KbNext ==
    \/ \E q \in QueryTopics, limit \in SearchLimits, answered \in BOOLEAN :
          kb_search(q, limit, answered) /\ UNCHANGED outside_kb
    \/ \E topic \in QueryTopics, written \in BOOLEAN :
          kb_store(topic, written) /\ UNCHANGED outside_kb
    \/ kb_tick /\ UNCHANGED outside_kb
    \/ \E topics \in SUBSET QueryTopics :
          kb_get_trending_topics(topics) /\ UNCHANGED outside_kb

KbSpec == KbInit /\ [][KbNext]_vars

\* C11: the search _check_existing_content makes (limit 5), when the backend
\* answered or the service answered for it, returns every document on the
\* topic that store_processed_content had written before the call: never an
\* answer computed before such a write.
C11_DuplicateDetectionFresh ==
    (kb_last.op = "search" /\ kb_last.limit = CheckSearchLimit /\ ~kb_last.failed)
        => kb_last.indexed \subseteq kb_last.results

\* ttl=timedelta(hours=6) passed for trending topics
TrendingCacheTtl == 6

\* C30: a call of KnowledgeBaseService.get_trending_topics that finds a
\* trending result stored by an earlier call is answered from the cache,
\* without a query to the backend, when the result was stored at most 6 hours
\* before, and queries the backend when it was stored longer ago.
C30_TrendingCachedSixHours ==
    (kb_last.op = "trending" /\ kb_last.held)
        => (kb_last.queried <=> kb_last.age > TrendingCacheTtl)

(* ---------------------- cache.py: MemoryBackend ------------------------- *)
(* Time is in ticks of 100 seconds.  A key is the sequence of its          *)
(* characters, the prefix of a content class counting as one character.    *)
(* The hot tier is the dict MemoryBackend.cache, kept as the sequence of   *)
(* its CacheEntry values in the order the dict iterates them.              *)

\* MemoryBackend.max_size (1000 in CacheManager), scaled down
max_size == 2
\* the last tick the clock reaches
MaxCacheClock == 2
\* None, for a value and for expires_at
None == 0 - 1
CacheValues == {1, 2}
\* the ttl a caller passes, in ticks
Ttls == {1, 2}

\* a string of n characters "a"
Ident(n) == [i \in 1..n |-> "a"]

\* CacheManager.key_prefixes.get(cache_type, "general:")
key_prefix(cache_type) ==
    CASE cache_type = "search_results" -> "search:"
      [] cache_type = "trending_topics" -> "trends:"
      [] OTHER -> "general:"

\* CacheManager._generate_key (identifiers here are shorter than the 100
\* characters above which the identifier is replaced by its digest)
generate_key(cache_type, identifier) == << key_prefix(cache_type) >> \o identifier

\* the keys the hot tier is asked for: one more than it can hold
HotKeys == { generate_key("search_results", Ident(n)) : n \in 1..(max_size + 1) }

\* dict lookup: the position of the key's entry, 0 when the key is missing
Index(cache, key) ==
    IF \E i \in DOMAIN cache : cache[i].key = key
    THEN CHOOSE i \in DOMAIN cache : cache[i].key = key
    ELSE 0

\* del self.cache[key]
RemoveAt(cache, i) == SubSeq(cache, 1, i - 1) \o SubSeq(cache, i + 1, Len(cache))

\* entry.expires_at and datetime.now() > entry.expires_at
Expired(entry, now) == entry.expires_at # None /\ now > entry.expires_at

\* MemoryBackend.get: the value returned and the dict it leaves
memory_get(cache, key, now) ==
    LET i == Index(cache, key)
    IN  IF i = 0 THEN [value |-> None, cache |-> cache]
        ELSE IF Expired(cache[i], now)
             THEN [value |-> None, cache |-> RemoveAt(cache, i)]
             ELSE [value |-> cache[i].data, cache |-> cache]

\* an eviction that removes the entry created last
evict_newest(cache) ==
    IF cache = << >> THEN cache
    ELSE RemoveAt(cache, CHOOSE i \in DOMAIN cache :
                            /\ \A j \in DOMAIN cache :
                                  cache[i].created_at >= cache[j].created_at
                            /\ \A j \in 1..(i - 1) :
                                  cache[j].created_at < cache[i].created_at)

\* MemoryBackend._evict_lru: min() returns the first of the oldest entries
evict_lru(cache) ==
    IF cache = << >> THEN cache
    ELSE RemoveAt(cache, CHOOSE i \in DOMAIN cache :
                            /\ \A j \in DOMAIN cache :
                                  cache[i].created_at <= cache[j].created_at
                            /\ \A j \in 1..(i - 1) :
                                  cache[j].created_at > cache[i].created_at)

\* MemoryBackend.set: the dict it leaves (it returns True)
memory_set(cache, key, value, ttl, now) ==
    LET kept == IF Len(cache) >= max_size /\ Index(cache, key) = 0
                THEN evict_lru(cache) ELSE cache
        entry == [key |-> key, data |-> value, created_at |-> now,
                  expires_at |-> IF ttl # 0 THEN now + ttl ELSE None]
        i == Index(kept, key)
    IN  IF i = 0 THEN Append(kept, entry) ELSE [kept EXCEPT ![i] = entry]

\* MemoryBackend.delete: what it returns and the dict it leaves
memory_delete(cache, key) ==
    LET i == Index(cache, key)
    IN  IF i = 0 THEN [deleted |-> FALSE, cache |-> cache]
        ELSE [deleted |-> TRUE, cache |-> RemoveAt(cache, i)]

\* await memory_backend.get(key)
hot_get(key) ==
    LET got == memory_get(memory_cache, key, cache_now)
        i == Index(memory_cache, key)
    IN  /\ memory_cache' = got.cache
        /\ cache_last' = [op |-> "get", layer |-> "memory", key |-> key,
                          value |-> got.value, held |-> i # 0,
                          expires_at |-> IF i = 0 THEN None
                                         ELSE memory_cache[i].expires_at,
                          at |-> cache_now]
        /\ UNCHANGED << cache_now, redis_data, redis_meta, cache_stats, reader >>

\* await memory_backend.set(key, value, ttl)
hot_set(key, value, ttl) ==
    /\ memory_cache' = memory_set(memory_cache, key, value, ttl, cache_now)
    /\ cache_last' = [op |-> "set", layer |-> "memory", key |-> key,
                      success |-> TRUE,
                      evicted |-> Len(memory_cache) >= max_size
                                  /\ Index(memory_cache, key) = 0]
    /\ UNCHANGED << cache_now, redis_data, redis_meta, cache_stats, reader >>

\* await memory_backend.delete(key)
hot_delete(key) ==
    LET done == memory_delete(memory_cache, key)
    IN  /\ memory_cache' = done.cache
        /\ cache_last' = [op |-> "delete", key |-> key, deleted |-> done.deleted]
        /\ UNCHANGED << cache_now, redis_data, redis_meta, cache_stats, reader >>

\* a tick passes
cache_tick ==
    /\ cache_now < MaxCacheClock
    /\ cache_now' = cache_now + 1
    /\ UNCHANGED << memory_cache, redis_data, redis_meta, cache_stats,
                    cache_last, reader >>

HotInit == WorkflowIdle /\ KbIdle /\ CacheIdle /\ UnitIdle /\ TopicIdle

HotNext ==
    \/ \E key \in HotKeys : hot_get(key) /\ UNCHANGED outside_cache
    \/ \E key \in HotKeys, ttl \in Ttls :
          hot_set(key, 1, ttl) /\ UNCHANGED outside_cache
    \/ \E key \in HotKeys : hot_delete(key) /\ UNCHANGED outside_cache
    \/ cache_tick /\ UNCHANGED outside_cache

HotSpec == HotInit /\ [][HotNext]_vars

\* C12: a get of the hot tier for a key whose entry was set with a ttl
\* returns the value when the clock is before created_at + ttl, and reports
\* the key absent when the clock is at or after it.
C12_TtlBoundary ==
    (cache_last.op = "get" /\ cache_last.layer = "memory" /\ cache_last.held
        /\ cache_last.expires_at # None)
        => (cache_last.value # None <=> cache_last.at < cache_last.expires_at)

KeysOf(cache) == { cache[i].key : i \in DOMAIN cache }
EntriesOf(cache) == { cache[i] : i \in DOMAIN cache }

MaxCacheOps == 3

\* layers["memory"]["ttl"] = 300 seconds
MemoryLayerTtl == 3
\* layers["redis"]["ttl"] = 3600 seconds
RedisLayerTtl == 36

Layers == {"memory", "redis"}
\* the ttl argument of CacheManager.set: None or a number of ticks
TtlArgs == {None, 0, 1}
\* the (memory_ttl, redis_ttl) arguments of set_multi_layer: its defaults,
\* or a caller's shorter pair
MultiTtls == { << MemoryLayerTtl, RedisLayerTtl >>, << 1, 2 >> }
\* the one content class and identifier the manager's callers use
ManagerClass == "search_results"
ManagerIds == { Ident(1) }

\* a Redis key that has not expired
Alive(store, key, now) ==
    key \in DOMAIN store /\ (store[key].expires_at = None \/ now < store[key].expires_at)

\* the keys Redis still holds
Live(store, now) ==
    [k \in {x \in DOMAIN store : Alive(store, x, now)} |-> store[k]]

\* RedisBackend.get: the except clause turns a failure into None
redis_get(data, key, now, ok) ==
    [raised |-> FALSE,
     value |-> IF ok /\ Alive(data, key, now) THEN data[key].data ELSE None]

\* a RedisBackend.set whose failure is not reported
redis_set_unreported(data, meta, key, value, ttl, now, ok) ==
    LET expires_at == IF ttl # 0 THEN now + ttl ELSE None
    IN  IF ok
        THEN [raised |-> FALSE, success |-> TRUE,
              data |-> Put(Live(data, now), key,
                           [data |-> value, expires_at |-> expires_at]),
              meta |-> Put(Live(meta, now), key, [expires_at |-> expires_at])]
        ELSE [raised |-> FALSE, success |-> TRUE, data |-> data, meta |-> meta]

\* RedisBackend.set: SETEX of the data key, HSET and EXPIRE of its meta hash;
\* the except clause turns a failure into False
redis_set(data, meta, key, value, ttl, now, ok) ==
    LET expires_at == IF ttl # 0 THEN now + ttl ELSE None
    IN  IF ok
        THEN [raised |-> FALSE, success |-> TRUE,
              data |-> Put(Live(data, now), key,
                           [data |-> value, expires_at |-> expires_at]),
              meta |-> Put(Live(meta, now), key, [expires_at |-> expires_at])]
        ELSE [raised |-> FALSE, success |-> FALSE, data |-> data, meta |-> meta]

\* RedisBackend.delete: DEL key, key:meta; deleted > 0
redis_delete(data, meta, key, now, ok) ==
    IF ok
    THEN [raised |-> FALSE,
          deleted |-> Alive(data, key, now) \/ Alive(meta, key, now),
          data |-> Drop(Live(data, now), key),
          meta |-> Drop(Live(meta, now), key)]
    ELSE [raised |-> FALSE, deleted |-> FALSE, data |-> data, meta |-> meta]

\* a Redis glob: * stands for any run of characters
RECURSIVE GlobMatch(_, _)
GlobMatch(pattern, key) ==
    IF pattern = << >> THEN key = << >>
    ELSE IF Head(pattern) = "*"
         THEN GlobMatch(Tail(pattern), key)
              \/ (key # << >> /\ GlobMatch(pattern, Tail(key)))
         ELSE /\ key # << >>
              /\ Head(key) = Head(pattern)
              /\ GlobMatch(Tail(pattern), Tail(key))

\* re.compile(pattern.replace('*', '.*')).match(key): the expression has to
\* match at the start of the key, not all of it
RECURSIVE RegexMatch(_, _)
RegexMatch(pattern, key) ==
    IF pattern = << >> THEN TRUE
    ELSE IF Head(pattern) = "*"
         THEN RegexMatch(Tail(pattern), key)
              \/ (key # << >> /\ RegexMatch(pattern, Tail(key)))
         ELSE /\ key # << >>
              /\ Head(key) = Head(pattern)
              /\ RegexMatch(Tail(pattern), Tail(key))

\* the name of a data key's meta hash
MetaKey(key) == key \o << ":meta" >>

\* MemoryBackend.clear_pattern: the count returned and the dict it leaves
memory_clear_pattern(cache, pattern) ==
    LET keys_to_delete == { k \in KeysOf(cache) : RegexMatch(pattern, k) }
    IN  [count |-> Cardinality(keys_to_delete),
         cache |-> SelectSeq(cache, LAMBDA e : e.key \notin keys_to_delete)]

\* RedisBackend.clear_pattern: KEYS pattern, then DEL of all of them
redis_clear_pattern(data, meta, pattern, now, ok) ==
    LET d == Live(data, now)
        m == Live(meta, now)
        data_keys == { k \in DOMAIN d : GlobMatch(pattern, k) }
        meta_keys == { k \in DOMAIN m : GlobMatch(pattern, MetaKey(k)) }
    IN  IF ok
        THEN [raised |-> FALSE,
              count |-> Cardinality(data_keys) + Cardinality(meta_keys),
              data |-> [k \in DOMAIN d \ data_keys |-> d[k]],
              meta |-> [k \in DOMAIN m \ meta_keys |-> m[k]]]
        ELSE [raised |-> FALSE, count |-> 0, data |-> data, meta |-> meta]

\* self.layers[layer]["ttl"]
layer_ttl(layer) == IF layer = "memory" THEN MemoryLayerTtl ELSE RedisLayerTtl

StatsTotal ==
    cache_stats.hits + cache_stats.misses + cache_stats.sets + cache_stats.deletes

Count(stats, counter) == [stats EXCEPT ![counter] = @ + 1]

\* the in-flight get_multi_layer read this key's value from the shared
\* tier, where another call has since deleted or replaced it
Retire(key, gone) ==
    IF reader.pc = "promote" /\ reader.key = key /\ reader.value # None /\ gone
    THEN [reader EXCEPT !.retired = TRUE]
    ELSE reader

\* CacheManager.get(cache_type, identifier, layer)
manager_get(identifier, layer, ok) ==
    LET key == generate_key(ManagerClass, identifier)
        hot == memory_get(memory_cache, key, cache_now)
        got == IF layer = "memory" THEN [raised |-> FALSE, value |-> hot.value]
               ELSE redis_get(redis_data, key, cache_now, ok)
        hit == ~got.raised /\ got.value # None
    IN  /\ StatsTotal < MaxCacheOps
        /\ memory_cache' = IF layer = "memory" THEN hot.cache ELSE memory_cache
        /\ cache_stats' = Count(cache_stats, IF hit THEN "hits" ELSE "misses")
        /\ cache_last' = [op |-> "get", layer |-> layer, key |-> key,
                          value |-> IF hit THEN got.value ELSE None,
                          hot |-> hot.value, redis_up |-> ok, raised |-> FALSE,
                          missed |-> ~hit]
        /\ UNCHANGED << cache_now, redis_data, redis_meta, reader >>

\* get_multi_layer up to the answer of Redis: the get of the hot tier and,
\* on a miss there, the GET sent to Redis.
\* after_delete: the call was made when the last call to have returned was a
\* delete of its key (and, in gml_promote, no call has returned since)
gml_read(identifier, ok) ==
    LET key == generate_key(ManagerClass, identifier)
        hot == memory_get(memory_cache, key, cache_now)
        got == redis_get(redis_data, key, cache_now, ok)
    IN  /\ StatsTotal < MaxCacheOps
        /\ reader.pc = "idle"
        /\ memory_cache' = hot.cache
        /\ IF hot.value # None
           THEN /\ cache_stats' = Count(cache_stats, "hits")
                /\ cache_last' = [op |-> "get_multi_layer", key |-> key,
                                  read |-> << "memory" >>, value |-> hot.value,
                                  hot |-> hot.value, redis_up |-> ok,
                                  raised |-> FALSE, missed |-> FALSE,
                                  promoted |-> FALSE,
                                  after_delete |-> cache_last.op = "delete"
                                                   /\ cache_last.key = key]
                /\ UNCHANGED reader
           ELSE /\ cache_stats' = Count(cache_stats, "misses")
                /\ reader' = [pc |-> "promote", key |-> key, value |-> got.value,
                              shared_expires |->
                                  IF got.value # None
                                  THEN redis_data[key].expires_at ELSE None,
                              redis_up |-> ok, retired |-> FALSE,
                              after_delete |-> cache_last.op = "delete"
                                               /\ cache_last.key = key]
                /\ UNCHANGED cache_last
        /\ UNCHANGED << cache_now, redis_data, redis_meta >>

\* get_multi_layer from the answer of Redis on: the value is counted,
\* promoted to the hot tier with the layer's ttl, and returned
gml_promote ==
    LET key == reader.key
        value == reader.value
        promoted == memory_set(memory_cache, key, value, layer_ttl("memory"), cache_now)
    IN  /\ reader.pc = "promote"
        /\ reader' = [pc |-> "idle"]
        /\ IF value # None
           THEN /\ memory_cache' = promoted
                /\ cache_stats' = Count(Count(cache_stats, "hits"), "sets")
           ELSE /\ cache_stats' = Count(cache_stats, "misses")
                /\ UNCHANGED memory_cache
        /\ cache_last' = [op |-> "get_multi_layer", key |-> key,
                          read |-> << "memory", "redis" >>, value |-> value,
                          hot |-> None, redis_up |-> reader.redis_up,
                          raised |-> FALSE, missed |-> value = None,
                          promoted |-> value # None,
                          hot_expires |-> IF value # None
                                          THEN cache_now + layer_ttl("memory")
                                          ELSE None,
                          shared_expires |-> reader.shared_expires,
                          retired |-> reader.retired,
                          after_delete |-> reader.after_delete
                                           /\ cache_last.op = "delete"]
        /\ UNCHANGED << cache_now, redis_data, redis_meta >>

\* CacheManager.set(cache_type, identifier, value, layer, ttl)
manager_set(identifier, value, layer, ttl_arg, ok) ==
    LET key == generate_key(ManagerClass, identifier)
        ttl == IF ttl_arg = None THEN layer_ttl(layer) ELSE ttl_arg
        done == redis_set(redis_data, redis_meta, key, value, ttl, cache_now, ok)
        success == IF layer = "memory" THEN TRUE ELSE ~done.raised /\ done.success
    IN  /\ StatsTotal < MaxCacheOps
        /\ IF layer = "memory"
           THEN /\ memory_cache' = memory_set(memory_cache, key, value, ttl, cache_now)
                /\ UNCHANGED << redis_data, redis_meta >>
           ELSE /\ redis_data' = done.data
                /\ redis_meta' = done.meta
                /\ UNCHANGED memory_cache
        /\ cache_stats' = IF success THEN Count(cache_stats, "sets") ELSE cache_stats
        /\ cache_last' = [op |-> "set", layer |-> layer, key |-> key,
                          success |-> success, redis_up |-> ok, raised |-> FALSE]
        /\ reader' = Retire(key, layer = "redis" /\ success /\ value # reader.value)
        /\ UNCHANGED cache_now

\* CacheManager.set_multi_layer(cache_type, identifier, value, memory_ttl, redis_ttl)
set_multi_layer(cache_type, identifier, value, ttls, ok) ==
    LET key == generate_key(cache_type, identifier)
        done == redis_set(redis_data, redis_meta, key, value, ttls[2], cache_now, ok)
        redis_success == ~done.raised /\ done.success
    IN  /\ StatsTotal < MaxCacheOps
        /\ memory_cache' = memory_set(memory_cache, key, value, ttls[1], cache_now)
        /\ redis_data' = done.data
        /\ redis_meta' = done.meta
        /\ cache_stats' = IF redis_success
                          THEN Count(Count(cache_stats, "sets"), "sets")
                          ELSE Count(cache_stats, "sets")
        /\ cache_last' = [op |-> "set_multi_layer", key |-> key, success |-> TRUE,
                          redis_up |-> ok, raised |-> FALSE]
        /\ reader' = Retire(key, redis_success /\ value # reader.value)
        /\ UNCHANGED cache_now

\* CacheManager.delete(cache_type, identifier): both layers, memory first
manager_delete(identifier, ok) ==
    LET key == generate_key(ManagerClass, identifier)
        hot == memory_delete(memory_cache, key)
        done == redis_delete(redis_data, redis_meta, key, cache_now, ok)
        deleted == hot.deleted \/ (~done.raised /\ done.deleted)
    IN  /\ StatsTotal < MaxCacheOps
        /\ memory_cache' = hot.cache
        /\ redis_data' = done.data
        /\ redis_meta' = done.meta
        /\ cache_stats' = IF deleted THEN Count(cache_stats, "deletes") ELSE cache_stats
        /\ cache_last' = [op |-> "delete", key |-> key, deleted |-> deleted,
                          redis_up |-> ok, raised |-> FALSE]
        /\ reader' = Retire(key, ok)
        /\ UNCHANGED cache_now

\* CacheManager.clear_pattern(cache_type, pattern): both layers
manager_clear_pattern(cache_type, pattern, ok) ==
    LET full_pattern == generate_key(cache_type, pattern)
        hot == memory_clear_pattern(memory_cache, full_pattern)
        done == redis_clear_pattern(redis_data, redis_meta, full_pattern, cache_now, ok)
    IN  /\ memory_cache' = hot.cache
        /\ redis_data' = done.data
        /\ redis_meta' = done.meta
        /\ cache_last' = [op |-> "clear_pattern", cache_type |-> cache_type,
                          pattern |-> pattern,
                          results |-> [memory |-> hot.count,
                                       redis |-> IF done.raised THEN 0 ELSE done.count],
                          redis_up |-> ok, raised |-> FALSE]
        /\ reader' = IF reader.pc = "promote"
                     THEN Retire(reader.key, ok /\ GlobMatch(full_pattern, reader.key))
                     ELSE reader
        /\ UNCHANGED << cache_now, cache_stats >>

ManagerInit == WorkflowIdle /\ KbIdle /\ CacheIdle /\ UnitIdle /\ TopicIdle

ManagerNext ==
    \/ \E id \in ManagerIds, layer \in Layers, ok \in BOOLEAN :
          manager_get(id, layer, ok) /\ UNCHANGED outside_cache
    \/ \E id \in ManagerIds, ok \in BOOLEAN :
          gml_read(id, ok) /\ UNCHANGED outside_cache
    \/ gml_promote /\ UNCHANGED outside_cache
    \/ \E id \in ManagerIds, value \in CacheValues, layer \in Layers,
          ttl \in TtlArgs, ok \in BOOLEAN :
          manager_set(id, value, layer, ttl, ok) /\ UNCHANGED outside_cache
    \/ \E id \in ManagerIds, value \in CacheValues, ttls \in MultiTtls,
          ok \in BOOLEAN :
          set_multi_layer(ManagerClass, id, value, ttls, ok) /\ UNCHANGED outside_cache
    \/ \E id \in ManagerIds, ok \in BOOLEAN :
          manager_delete(id, ok) /\ UNCHANGED outside_cache
    \/ \E ok \in BOOLEAN :
          /\ StatsTotal < MaxCacheOps
          /\ manager_clear_pattern(ManagerClass, << "*" >>, ok)
          /\ UNCHANGED outside_cache
    \/ cache_tick /\ UNCHANGED outside_cache

ManagerSpec == ManagerInit /\ [][ManagerNext]_vars

\* C14: get_multi_layer reads the hot tier first and the shared tier only
\* on a hot miss; a value found only in the shared tier is in the hot tier
\* under the same key when the call returns, and the promoted copy expires
\* no later than the shared entry it was copied from.
C14_PromotionOutlived ==
    cache_last.op = "get_multi_layer"
        => /\ cache_last.hot # None => cache_last.read = << "memory" >>
           /\ cache_last.promoted
                => /\ cache_last.read = << "memory", "redis" >>
                   /\ cache_last.shared_expires # None
                        => cache_last.hot_expires <= cache_last.shared_expires

\* C15: while Redis does not answer, no call of the manager raises; a get
\* of the shared tier and a get_multi_layer that misses the hot tier return
\* None and count a miss, a set of the shared tier returns False, delete
\* and clear_pattern return, and a value held by the hot tier is the value
\* get and get_multi_layer return.
C15_SharedTierFailureContained ==
    (cache_last.op # "none" /\ ~cache_last.redis_up)
        => /\ ~cache_last.raised
           /\ (cache_last.op = "get" /\ cache_last.layer = "redis")
                => (cache_last.value = None /\ cache_last.missed)
           /\ (cache_last.op = "get" /\ cache_last.layer = "memory")
                => cache_last.value = cache_last.hot
           /\ cache_last.op = "get_multi_layer"
                => IF cache_last.hot # None
                   THEN cache_last.value = cache_last.hot
                   ELSE cache_last.value = None /\ cache_last.missed
           /\ (cache_last.op = "set" /\ cache_last.layer = "redis")
                => ~cache_last.success
           /\ cache_last.op = "clear_pattern" => cache_last.results.redis = 0

\* C15 witness: a get_multi_layer has returned None, counted as a miss,
\* for a key Redis holds but could not be asked for
C15_ReadWhileRedisDown ==
    /\ cache_last.op = "get_multi_layer" /\ ~cache_last.redis_up
    /\ cache_last.value = None /\ cache_last.missed
    /\ Alive(redis_data, cache_last.key, cache_now)

\* C16: the counters never decrease; a get adds exactly 1 to hits or to
\* misses, a set adds 1 to sets, a delete adds 1 to deletes.
C16_StatsCountEveryCall ==
    [][ /\ cache_stats'.hits >= cache_stats.hits
        /\ cache_stats'.misses >= cache_stats.misses
        /\ cache_stats'.sets >= cache_stats.sets
        /\ cache_stats'.deletes >= cache_stats.deletes
        /\ (cache_now' = cache_now /\ reader'.pc = reader.pc)
            => /\ cache_last'.op = "get"
                    => (cache_stats'.hits + cache_stats'.misses
                            = cache_stats.hits + cache_stats.misses + 1)
               /\ cache_last'.op = "set"
                    => cache_stats'.sets = cache_stats.sets + 1
               /\ cache_last'.op = "delete"
                    => cache_stats'.deletes = cache_stats.deletes + 1
      ]_vars

\* C17: when get_multi_layer has promoted a value, no delete or set of the
\* same key by another task had removed or replaced that value between the
\* read of the shared tier and the write of the promotion.
C17_PromotionNotStale ==
    (cache_last.op = "get_multi_layer" /\ cache_last.promoted)
        => ~cache_last.retired

\* C32: a get_multi_layer called after delete(class, id) has returned, no
\* other call having returned in between, returns None, whether or not Redis
\* answered during the delete.
C32_DeletedKeyIsGone ==
    (cache_last.op = "get_multi_layer" /\ cache_last.after_delete)
        => cache_last.value = None

\* C33: every entry of the hot tier has an expiry time (the manager is the
\* only writer of the tier here: set, set_multi_layer and the promotion of
\* get_multi_layer).
C33_HotEntriesExpire ==
    \A i \in DOMAIN memory_cache : memory_cache[i].expires_at # None

(* --------------------- cache.py: clear_pattern -------------------------- *)

\* the content classes, identifiers and patterns the callers use
PatternClasses == {"search_results", "trending_topics"}
PatternIds == { << "a" >>, << "a", "b" >> }
Patterns == { << "*" >>, << "a" >>, << "a", "*" >>, << "b" >> }

PatternInit == WorkflowIdle /\ KbIdle /\ CacheIdle /\ UnitIdle /\ TopicIdle

PatternNext ==
    \/ \E cache_type \in PatternClasses, id \in PatternIds, ok \in BOOLEAN :
          /\ set_multi_layer(cache_type, id, 1,
                             << MemoryLayerTtl, RedisLayerTtl >>, ok)
          /\ UNCHANGED outside_cache
    \/ \E cache_type \in PatternClasses, pattern \in Patterns, ok \in BOOLEAN :
          /\ manager_clear_pattern(cache_type, pattern, ok)
          /\ UNCHANGED outside_cache

PatternSpec == PatternInit /\ [][PatternNext]_vars

\* the keys of a content class whose identifier matches the glob pattern
Matching(keys, cache_type, pattern) ==
    { k \in keys : Head(k) = key_prefix(cache_type) /\ GlobMatch(pattern, Tail(k)) }

\* C18: clear_pattern(class, pattern) removes from each tier exactly the
\* keys of the class whose identifier matches the glob pattern, returns the
\* number it removed from each tier, and leaves every other key in place.
C18_ClearPatternExact ==
    [][ cache_last'.op = "clear_pattern"
        => LET cache_type == cache_last'.cache_type
               pattern == cache_last'.pattern
               hot == KeysOf(memory_cache)
               shared == DOMAIN Live(redis_data, cache_now)
           IN  /\ KeysOf(memory_cache') = hot \ Matching(hot, cache_type, pattern)
               /\ cache_last'.results.memory
                    = Cardinality(Matching(hot, cache_type, pattern))
               /\ cache_last'.redis_up
                    => /\ DOMAIN Live(redis_data', cache_now)
                            = shared \ Matching(shared, cache_type, pattern)
                       /\ cache_last'.results.redis
                            = Cardinality(Matching(shared, cache_type, pattern))
      ]_vars

(* ------------- Topic.hash and the dedup of candidate topics ------------- *)

\* candidate topics in one list
MaxCandidates == 3

KeywordLists == { << 1 >>, << 1, 2 >>, << 2, 1 >> }
Categories == {"finance", "investment"}
TrendScores == {60, 90}

TopicPool ==
    { Topic(kws, cat, trend) :
        kws \in KeywordLists, cat \in Categories, trend \in TrendScores }

\* kb_topics + collection_topics
CandidateLists == UNION { [1..n -> TopicPool] : n \in 0..MaxCandidates }

\* f"{trend_score:.2f}": the hundredths printed for a score in tenths
Format2f(trend_score) == trend_score * 10

\* Topic.hash(): category, the sorted keywords and the formatted score,
\* joined by "_" (no part here contains a "_")
topic_hash(topic) ==
    << topic.category >> \o topic_key(topic) \o << Format2f(topic.trend_score) >>

\* topic.hash() of every candidate
fingerprint ==
    /\ candidates # << >>
    /\ fingerprints = << >>
    /\ fingerprints' = [i \in DOMAIN candidates |-> topic_hash(candidates[i])]
    /\ UNCHANGED << candidates, deduplicated, selection >>

\* the dedup loop of _analyze_trending_topics on all_topics
deduplicate ==
    /\ candidates # << >>
    /\ deduplicated = << >>
    /\ deduplicated' = Deduplicate(candidates, << >>, {})
    /\ UNCHANGED << candidates, fingerprints, selection >>

TopicInit ==
    /\ WorkflowIdle /\ KbIdle /\ CacheIdle /\ UnitIdle
    /\ candidates \in CandidateLists
    /\ deduplicated = << >>
    /\ fingerprints = << >>
    /\ selection = NoSelection

TopicNext ==
    \/ fingerprint /\ UNCHANGED outside_topics
    \/ deduplicate /\ UNCHANGED outside_topics

TopicSpec == TopicInit /\ [][TopicNext]_vars

\* what the fingerprint is to stand for: the category and the keyword set
Identity(topic) ==
    << topic.category, { topic.keywords[i] : i \in DOMAIN topic.keywords } >>

\* C19: two Topics with the same category and the same keywords get the
\* same fingerprint from Topic.hash, whatever the order of the keywords and
\* whatever their trend_score.
C19_FingerprintIgnoresTrend ==
    \A i, j \in DOMAIN fingerprints :
        Identity(candidates[i]) = Identity(candidates[j])
            => fingerprints[i] = fingerprints[j]

\* C20: the deduplicated list has exactly one Topic for every distinct
\* category and keyword set among the candidates.
C20_DedupByFingerprint ==
    deduplicated # << >>
        => /\ { Identity(deduplicated[i]) : i \in DOMAIN deduplicated }
                = { Identity(candidates[i]) : i \in DOMAIN candidates }
           /\ \A i, j \in DOMAIN deduplicated :
                 Identity(deduplicated[i]) = Identity(deduplicated[j]) => i = j

\* C21: the Topic that survives the dedup for a category and keyword set
\* carries the highest trend_score among the candidates with that category
\* and keyword set.
C21_DedupKeepsMaxScore ==
    \A i \in DOMAIN deduplicated :
        \A j \in DOMAIN candidates :
            Identity(candidates[j]) = Identity(deduplicated[i])
                => candidates[j].trend_score <= deduplicated[i].trend_score

(* ------- _analyze_trending_topics and _select_optimal_topic alone ------- *)

\* topics the two trending sources hand over together
MaxCollected == 6

\* kb_topics + collection_topics: one keyword per topic, as both sources
\* build them. Keywords 3, 4, ... are words outside high_engagement_keywords;
\* the numbers follow the alphabetical order of the words ("bitcoin" <
\* "budget" < "gardening" < ...)
CollectedLists ==
    LET KeywordOrders(n) ==
            { [i \in 1..n |-> i], [i \in 1..n |-> n + 1 - i],
              [i \in 1..n |-> (i + 1) \div 2] }
    IN  UNION { { [i \in 1..n |-> Topic(<< order[i] >>, "finance", trend[i])] :
                    order \in KeywordOrders(n), trend \in [1..n -> TrendScores] } :
                n \in 0..MaxCollected }

\* len(existing_content) of a search in _select_optimal_topic; with these two
\* counts two final scores are equal only when their three terms are equal
SelectHits == {0, 2}

\* _analyze_trending_topics on all_topics: dedup, sort by trend_score
\* descending, first five
rank_topics ==
    /\ selection.pc = "idle"
    /\ deduplicated' = Deduplicate(candidates, << >>, {})
    /\ selection' = [selection EXCEPT !.pc = "select",
                                       !.topics = TopCut(SortByTrend(deduplicated'))]
    /\ UNCHANGED << candidates, fingerprints >>

\* _select_optimal_topic, one turn of its loop: await knowledge_base.search
\* for the next topic, then its final score
score_topic(hits) ==
    /\ selection.pc = "select"
    /\ Len(selection.scored_topics) < Len(selection.topics)
    /\ LET topic == selection.topics[Len(selection.scored_topics) + 1]
       IN  selection' =
              [selection EXCEPT
                 !.searches = Append(@, [query |-> topic.keywords,
                                         category |-> topic.category,
                                         limit |-> SelectSearchLimit]),
                 !.scored_topics = Append(@, [k |-> final_score(topic, hits),
                                              v |-> topic])]
    /\ UNCHANGED << candidates, deduplicated, fingerprints >>

\* _select_optimal_topic: ValueError for an empty list; after the loop, sort
\* by final score descending and take the first
select_topic ==
    /\ selection.pc = "select"
    /\ Len(selection.scored_topics) = Len(selection.topics)
    /\ selection' =
          IF selection.topics = << >>
          THEN [selection EXCEPT !.pc = "raised"]
          ELSE [selection EXCEPT
                  !.pc = "selected",
                  !.scored_topics = SortDesc(@, << >>),
                  !.selected_topic = SortDesc(selection.scored_topics, << >>)[1].v]
    /\ UNCHANGED << candidates, deduplicated, fingerprints >>

SelectInit ==
    /\ WorkflowIdle /\ KbIdle /\ CacheIdle /\ UnitIdle
    /\ candidates \in CollectedLists
    /\ deduplicated = << >>
    /\ fingerprints = << >>
    /\ selection = NoSelection

SelectNext ==
    \/ rank_topics /\ UNCHANGED outside_topics
    \/ \E hits \in SelectHits : score_topic(hits) /\ UNCHANGED outside_topics
    \/ select_topic /\ UNCHANGED outside_topics

SelectSpec == SelectInit /\ [][SelectNext]_vars

\* lexicographic order of two sequences of numbers
RECURSIVE LexBefore(_, _)
LexBefore(a, b) ==
    IF a = << >> THEN b # << >>
    ELSE IF b = << >> THEN FALSE
    ELSE IF Head(a) # Head(b) THEN Head(a) < Head(b)
    ELSE LexBefore(Tail(a), Tail(b))

\* the fingerprint of one topic sorts before that of another: by category,
\* then by the sorted keywords, then by the formatted score
FingerprintBefore(t, u) ==
    LET rank(c) == IF c = "finance" THEN 1 ELSE 2
    IN  LexBefore(<< rank(t.category) >> \o Tail(topic_hash(t)),
                  << rank(u.category) >> \o Tail(topic_hash(u)))

\* C22: the Topic returned by _select_optimal_topic has the maximal final
\* score among the candidates, and among the candidates that share the
\* maximal score it is the one with the smallest fingerprint.
C22_SelectsMaxWithFingerprintTieBreak ==
    selection.pc = "selected"
        => \E i \in DOMAIN selection.scored_topics :
              /\ selection.scored_topics[i].v = selection.selected_topic
              /\ \A j \in DOMAIN selection.scored_topics :
                    LET mine == selection.scored_topics[i]
                        other == selection.scored_topics[j]
                    IN  /\ other.k <= mine.k
                        /\ other.k = mine.k
                              => ~FingerprintBefore(other.v, mine.v)

\* the topics among the deduplicated ones that _select_optimal_topic scored
ScoredTopics == { selection.scored_topics[i].v : i \in DOMAIN selection.scored_topics }

\* C28: a run scores at most 5 candidate topics, sends exactly one
\* knowledge base search per scored candidate (the i-th search asks for the
\* i-th candidate), and once the selection is made the scored candidates are
\* 5 of the deduplicated topics (all of them when there are fewer) and no
\* topic left out has a higher trend_score than a scored one.
C28_CandidateCap ==
    /\ Len(selection.scored_topics) <= TopTopics
    /\ Len(selection.searches) = Len(selection.scored_topics)
    /\ \A i \in DOMAIN selection.searches :
          /\ i <= Len(selection.topics)
          /\ selection.searches[i].query = selection.topics[i].keywords
          /\ selection.searches[i].category = selection.topics[i].category
    /\ selection.pc = "selected"
          => LET unique == { deduplicated[i] : i \in DOMAIN deduplicated }
             IN  /\ ScoredTopics \subseteq unique
                 /\ ScoredTopics = { selection.topics[i] : i \in DOMAIN selection.topics }
                 /\ Cardinality(ScoredTopics)
                       = IF Cardinality(unique) < TopTopics
                         THEN Cardinality(unique) ELSE TopTopics
                 /\ \A t \in ScoredTopics : \A u \in unique \ ScoredTopics :
                       u.trend_score <= t.trend_score

\* C28 witness: a selection made from more than 5 deduplicated topics, one
\* of the topics left out having a lower trend_score than every scored one
C28_CapApplied ==
    /\ selection.pc = "selected"
    /\ Len(deduplicated) > TopTopics
    /\ Len(selection.searches) = TopTopics
    /\ \E i \in DOMAIN deduplicated :
          /\ deduplicated[i] \notin ScoredTopics
          /\ \A t \in ScoredTopics : deduplicated[i].trend_score < t.trend_score

(* ---------------------- _check_existing_content ------------------------- *)

\* search results handed to _check_existing_content in one call
MaxResults == 2
\* result.content.lower().split()[:100]
WordsCompared == 100

\* result.content.lower().split() of a search result: the words of a text,
\* numbered (0: a word that is no part of any keyword); a keyword is the
\* list of its words ("bitcoin" is << 1 >>, "real estate" is << 1, 2 >>)
Contents ==
    LET Place(ws, at) ==
            [i \in 1..(WordsCompared + 1) |->
                IF i >= at /\ i < at + Len(ws) THEN ws[i - at + 1] ELSE 0]
    IN  { Place(<< >>, 1), Place(<< 1 >>, WordsCompared),
          Place(<< 1 >>, WordsCompared + 1), Place(<< 1, 2 >>, 1),
          Place(<< 2, 1 >>, WordsCompared - 1), Place(<< 1, 2 >>, WordsCompared) }

\* _check_existing_content after await knowledge_base.search: the first
\* result whose similarity is above the threshold, or None. A keyword is in
\* result_keywords when it is equal to one of the words, which a keyword of
\* several words never is. Thresholds are in hundredths.
check_existing_content(search_results) ==
    /\ gate.pc = "called"
    /\ LET result_keywords(content) ==
               { content[i] : i \in 1..(IF Len(content) < WordsCompared
                                          THEN Len(content) ELSE WordsCompared) }
           topic_keywords == { gate.topic.keywords[i] : i \in DOMAIN gate.topic.keywords }
           overlap(content) ==
               Cardinality({ kw \in topic_keywords :
                               Len(kw) = 1 /\ kw[1] \in result_keywords(content) })
           similar(content) ==
               IF topic_keywords = {} THEN 0 > gate.similarity_threshold
               ELSE overlap(content) * 100
                        > gate.similarity_threshold * Cardinality(topic_keywords)
           found == { i \in DOMAIN search_results : similar(search_results[i]) }
       IN  gate' = [gate EXCEPT
                      !.pc = "returned",
                      !.search_results = search_results,
                      !.existing_content =
                          IF found = {} THEN None
                          ELSE CHOOSE i \in found : \A j \in found : i <= j]
    /\ UNCHANGED outside_gate

\* the selected topic has one keyword (both trending sources build
\* keywords=[keyword]), of one word or of several
GateInit ==
    /\ WorkflowIdle /\ KbIdle /\ CacheIdle /\ TopicIdle
    /\ quality = [pc |-> "idle"]
    /\ retry = NoRequest
    /\ generator = NoGeneration
    /\ anthropic = NoUsage
    /\ scheduler = NoSchedule
    /\ doc = NoDoc
    /\ trending = NoTrend
    /\ \E kw \in { << 1 >>, << 1, 2 >> }, threshold \in { 50, 80, 100 } :
          gate = [pc |-> "called", topic |-> Topic(<< kw >>, "finance", 90),
                  similarity_threshold |-> threshold,
                  search_results |-> << >>, existing_content |-> None]

GateNext ==
    \E n \in 0..MaxResults : \E search_results \in [1..n -> Contents] :
        check_existing_content(search_results)

GateSpec == GateInit /\ [][GateNext]_vars

\* the first 100 words of a text contain a keyword: its words, in a row
ContainsKeyword(content, kw) ==
    \E at \in 1..WordsCompared :
        /\ at + Len(kw) - 1 <= WordsCompared
        /\ at + Len(kw) - 1 <= Len(content)
        /\ \A i \in 1..Len(kw) : content[at + i - 1] = kw[i]

\* C23: when the first 100 words of some search result contain every keyword
\* of the topic, _check_existing_content returns existing content, for every
\* similarity threshold up to and including 1.0.
C23_SimilarityRouting ==
    ( /\ gate.pc = "returned"
      /\ gate.similarity_threshold <= 100
      /\ \E i \in DOMAIN gate.search_results :
            \A k \in DOMAIN gate.topic.keywords :
                ContainsKeyword(gate.search_results[i], gate.topic.keywords[k]) )
        => gate.existing_content # None

(* -------------------- QualityMetrics.overall_score ---------------------- *)

\* sub-scores, in whole points of the 0..10 scale
SubScores == {0, 6, 7, 8, 9, 10}

\* the same sum with the weights of readability and engagement exchanged
overall_score_exchanged(m) ==
    m.readability_score * 250 + m.engagement_score * 200
        + m.educational_value * 250 + m.actionability_score * 200
        + m.originality_score * 100

\* QualityMetrics.overall_score, in thousandths of a point: the weights are
\* 0.2, 0.25, 0.25, 0.2 and 0.1
overall_score(m) ==
    m.readability_score * 200 + m.engagement_score * 250
        + m.educational_value * 250 + m.actionability_score * 200
        + m.originality_score * 100

\* a read of the property
read_overall_score ==
    /\ quality.pc = "built"
    /\ quality' = [quality EXCEPT !.pc = "read", !.overall_score = overall_score(quality)]
    /\ UNCHANGED outside_quality

\* QualityMetrics(...) built from five sub-scores
QualityInit ==
    /\ WorkflowIdle /\ KbIdle /\ CacheIdle /\ TopicIdle
    /\ gate = NoGate
    /\ retry = NoRequest
    /\ generator = NoGeneration
    /\ anthropic = NoUsage
    /\ scheduler = NoSchedule
    /\ doc = NoDoc
    /\ trending = NoTrend
    /\ \E r, e, v, a, o \in SubScores :
          quality = [pc |-> "built", readability_score |-> r, engagement_score |-> e,
                     educational_value |-> v, actionability_score |-> a,
                     originality_score |-> o, overall_score |-> None]

QualityNext == read_overall_score

QualitySpec == QualityInit /\ [][QualityNext]_vars

\* the five sub-scores of the object
SubScoresOf(m) ==
    << m.readability_score, m.engagement_score, m.educational_value,
       m.actionability_score, m.originality_score >>

\* C24, as stated: overall_score is 0.20*readability + 0.25*engagement +
\* 0.25*educational_value + 0.20*actionability + 0.10*originality; it is 10.0
\* for (10,10,10,10,10), 0.0 for (0,0,0,0,0) and 7.65 for (8,9,7,6,10).
C24_WeightedScoreAsStated ==
    quality.pc = "read"
        => /\ quality.overall_score
                = 200 * quality.readability_score + 250 * quality.engagement_score
                    + 250 * quality.educational_value
                    + 200 * quality.actionability_score
                    + 100 * quality.originality_score
           /\ SubScoresOf(quality) = << 10, 10, 10, 10, 10 >>
                 => quality.overall_score = 10000
           /\ SubScoresOf(quality) = << 0, 0, 0, 0, 0 >> => quality.overall_score = 0
           /\ SubScoresOf(quality) = << 8, 9, 7, 6, 10 >>
                 => quality.overall_score = 7650

\* C24, amended: the same weighted sum and the same values for
\* (10,10,10,10,10) and (0,0,0,0,0), and 7.8 for (8,9,7,6,10).
C24_WeightedScore ==
    quality.pc = "read"
        => /\ quality.overall_score
                = 200 * quality.readability_score + 250 * quality.engagement_score
                    + 250 * quality.educational_value
                    + 200 * quality.actionability_score
                    + 100 * quality.originality_score
           /\ SubScoresOf(quality) = << 10, 10, 10, 10, 10 >>
                 => quality.overall_score = 10000
           /\ SubScoresOf(quality) = << 0, 0, 0, 0, 0 >> => quality.overall_score = 0
           /\ SubScoresOf(quality) = << 8, 9, 7, 6, 10 >>
                 => quality.overall_score = 7800

\* C24 witness: overall_score read from the metrics (8,9,7,6,10)
C24_MixedScoresRead ==
    /\ quality.pc = "read"
    /\ SubScoresOf(quality) = << 8, 9, 7, 6, 10 >>
    /\ quality.overall_score = 7800

(* ---- AIContentGenerationService: generate_financial_article, ---------- *)
(* ---- improve_article (financial_wisdom_service.py) --------------------- *)

\* requests served by the one service object
MaxRequests == 2

\* max_retries of generate_financial_article
max_retries == 3
\* max_retries of improve_article
improve_max_retries == 2
\* retry_delay at the start of a request, in seconds
initial_retry_delay == 1

\* what one await of anthropic_client.messages.create can give: a response
\* with text, a response without, an exception whose message holds 'broken
\* pipe', 'connection', 'timeout' or 'errno 32', any other exception
CallOutcomes == {"text", "empty", "transient", "other"}

RetriesOf(fn) == IF fn = "generate" THEN max_retries ELSE improve_max_retries

\* a loop in which an empty response is asked for again without counting
\* the attempt
loop_turn_uncounted(r, outcome) ==
    LET called == [r EXCEPT !.calls = Append(@, outcome)]
        last == r.attempt = RetriesOf(r.fn) - 1
    IN  IF outcome = "text" THEN [called EXCEPT !.result = "success"]
        ELSE IF outcome = "empty"
             THEN [called EXCEPT !.slept = Append(@, r.retry_delay),
                                 !.retry_delay = @ * 2]
        ELSE IF last THEN [called EXCEPT !.result = "failure"]
        ELSE [called EXCEPT !.attempt = @ + 1]

\* one turn of the for loop of generate_financial_article or
\* improve_article: the model call, then the handling of what it gave. After
\* the turn the loop goes on with attempt + 1, or the function has returned.
loop_turn(r, outcome) ==
    LET called == [r EXCEPT !.calls = Append(@, outcome)]
        last == r.attempt = RetriesOf(r.fn) - 1
        backoff == [called EXCEPT !.slept = Append(@, r.retry_delay),
                                  !.retry_delay = @ * 2,
                                  !.attempt = @ + 1]
    IN  IF outcome = "text" THEN [called EXCEPT !.result = "success"]
        ELSE IF outcome = "empty"
             THEN IF ~last THEN backoff ELSE [called EXCEPT !.result = "failure"]
        ELSE IF outcome = "transient" /\ ~last THEN backoff
        ELSE IF last THEN [called EXCEPT !.result = "failure"]
        ELSE [called EXCEPT !.attempt = @ + 1]

\* a caller awaits generate_financial_article or improve_article
start_request(fn) ==
    /\ retry.fn = "none" \/ retry.result # "none"
    /\ retry.served < MaxRequests
    /\ retry' = [fn |-> fn, attempt |-> 0, retry_delay |-> initial_retry_delay,
                 calls |-> << >>, slept |-> << >>, result |-> "none",
                 served |-> retry.served + 1]
    /\ UNCHANGED outside_retry

\* the next turn of the loop; when the loop runs out, the return after it
model_call(outcome) ==
    /\ retry.fn # "none"
    /\ retry.result = "none"
    /\ retry.attempt < RetriesOf(retry.fn)
    /\ LET turned == loop_turn(retry, outcome)
       IN  retry' = IF turned.result = "none" /\ turned.attempt >= RetriesOf(turned.fn)
                    THEN [turned EXCEPT !.result = "failure"]
                    ELSE turned
    /\ UNCHANGED outside_retry

RetryInit ==
    /\ WorkflowIdle /\ KbIdle /\ CacheIdle /\ TopicIdle /\ UnitIdle

RetryNext ==
    \/ \E fn \in {"generate", "improve"} : start_request(fn)
    \/ \E outcome \in CallOutcomes : model_call(outcome)

RetrySpec == RetryInit /\ [][RetryNext]_vars

\* C25: whatever the model calls give, generate_financial_article makes at
\* most 3 of them for one request, has returned a result (success or
\* failure) once 3 are made, and never raises.
C25_BoundedRetry ==
    retry.fn = "generate"
        => /\ Len(retry.calls) <= 3
           /\ retry.result \in {"none", "success", "failure"}
           /\ retry.result = "none" => Len(retry.calls) < 3
           /\ retry.result = "none" => retry.attempt < max_retries

\* C25 witness: three model calls for one request, an empty response, a
\* transient error and another error among them, and a failure returned
C25_ThreeCallsThenFailure ==
    /\ retry.fn = "generate"
    /\ Len(retry.calls) = 3
    /\ { retry.calls[i] : i \in DOMAIN retry.calls } = {"empty", "transient", "other"}
    /\ retry.result = "failure"

\* C26: a model call of generate_financial_article or improve_article that
\* fails with an error outside the transient class is the last model call of
\* the request, and the function returns a failure.
C26_OnlyTransientRetried ==
    retry.fn # "none"
        => \A i \in DOMAIN retry.calls :
              retry.calls[i] = "other"
                  => i = Len(retry.calls) /\ retry.result = "failure"

(* ------------------- Article, through its own methods ------------------- *)

\* Article.generate_content: ValueError unless DRAFT; else the generator's
\* content and GENERATED
doc_generate_content(generated) ==
    /\ doc.op # "none"
    /\ doc' = IF doc.article.status # "draft"
              THEN [doc EXCEPT !.op = "generate_content", !.raised = TRUE]
              ELSE [article |-> [doc.article EXCEPT !.content = generated,
                                                    !.status = "generated"],
                    op |-> "generate_content", raised |-> FALSE]
    /\ UNCHANGED outside_doc

\* Article.assess_quality: ValueError without content; else the metrics of
\* the quality service and QUALITY_CHECK
doc_assess_quality(score) ==
    /\ doc.op # "none"
    /\ doc' = IF doc.article.content = 0
              THEN [doc EXCEPT !.op = "assess_quality", !.raised = TRUE]
              ELSE [article |-> [doc.article EXCEPT !.quality_metrics = score,
                                                    !.status = "quality_check"],
                    op |-> "assess_quality", raised |-> FALSE]
    /\ UNCHANGED outside_doc

\* Article.approve_for_publishing
doc_approve_for_publishing ==
    /\ doc.op # "none"
    /\ doc' = [article |-> approve_for_publishing(doc.article).article,
               op |-> "approve_for_publishing",
               raised |-> approve_for_publishing(doc.article).raised]
    /\ UNCHANGED outside_doc

\* Article.publish
doc_publish ==
    /\ doc.op # "none"
    /\ doc' = [article |-> publish(doc.article).article, op |-> "publish",
               raised |-> publish(doc.article).raised]
    /\ UNCHANGED outside_doc

\* Article(...) as its callers build it: the workflow builds GENERATED
\* articles with content, NotionService builds one from a stored page with
\* the status, content, metrics and published_at kept there (published_at
\* is set on the pages of published articles)
ArticleInit ==
    /\ WorkflowIdle /\ KbIdle /\ CacheIdle /\ TopicIdle
    /\ gate = NoGate
    /\ quality = [pc |-> "idle"]
    /\ retry = NoRequest
    /\ generator = NoGeneration
    /\ anthropic = NoUsage
    /\ scheduler = NoSchedule
    /\ trending = NoTrend
    /\ \E status \in {"draft", "generated", "quality_check", "approved",
                        "published", "archived"},
          content \in {0, 1}, metrics \in {NoScore} \cup Scores :
          doc = [article |-> [status |-> status, quality_metrics |-> metrics,
                              content |-> content,
                              published_at |-> (status = "published")],
                 op |-> "new", raised |-> FALSE]

ArticleNext ==
    \/ \E generated \in {1, 2} : doc_generate_content(generated)
    \/ \E score \in Scores : doc_assess_quality(score)
    \/ doc_approve_for_publishing
    \/ doc_publish

ArticleSpec == ArticleInit /\ [][ArticleNext]_vars

\* C27: once an Article is PUBLISHED, no call of generate_content,
\* assess_quality, approve_for_publishing or publish changes its status,
\* content, quality_metrics or published_at.
C27_PublishedIsFinal ==
    [][ doc.article.status = "published" => doc'.article = doc.article ]_vars

(* --- trending aggregation: DataCollectionService.collect_trending_topics *)
(* --- and KnowledgeSearchEngine.get_trending_topics ---------------------- *)

\* mentions of one keyword in the content collected
MaxMentions == 21

\* count > 2: the minimum number of mentions of a topic
MinMentions == 2
\* topics[:10], and limit=10 of get_trending_topics
TrendingLimit == 10

\* the financial_keywords looked for, in the order of the list
TrendKeywords == 1..2

\* a trend score that grows with the count without end
unbounded_trend_score(count) == count * 5

\* min(10.0, count / 2.0), in tenths of a point
scaled_trend_score(count) == IF count * 5 < 100 THEN count * 5 ELSE 100

\* collect_trending_topics, one turn of the loop over recent_content: the
\* keywords found in the text are counted, in the order of financial_keywords;
\* a keyword counted for the first time goes to the end of the dict
count_content(found) ==
    /\ trending.pc = "idle" \/ (trending.pc = "counting" /\ trending.source = "collect")
    /\ \A e \in DOMAIN trending.keyword_counts :
          trending.keyword_counts[e].keyword \in found
              => trending.keyword_counts[e].count < MaxMentions
    /\ LET known == { trending.keyword_counts[e].keyword : e \in DOMAIN trending.keyword_counts }
           counted == [e \in DOMAIN trending.keyword_counts |->
                          IF trending.keyword_counts[e].keyword \in found
                          THEN [trending.keyword_counts[e] EXCEPT !.count = @ + 1]
                          ELSE trending.keyword_counts[e]]
           new == SelectSeq([k \in TrendKeywords |-> k],
                            LAMBDA k : k \in found \ known)
       IN  trending' = [trending EXCEPT
                       !.pc = "counting", !.source = "collect",
                       !.keyword_counts =
                           counted \o [i \in DOMAIN new |->
                                          [keyword |-> new[i], count |-> 1]]]
    /\ UNCHANGED outside_trend

\* Topic(keywords=[keyword], category, trend_score, context={'mention_count'})
TrendTopic(entry) ==
    [keywords |-> << entry.keyword >>, category |-> "finance",
     trend_score |-> scaled_trend_score(entry.count), mention_count |-> entry.count]

\* collect_trending_topics after the loop: a topic for every keyword counted
\* more than twice, in dict order; stable sort by trend_score descending;
\* the first ten
collect_trending_topics ==
    /\ trending.pc \in {"idle", "counting"}
    /\ trending.source # "engine"
    /\ LET kept == SelectSeq(trending.keyword_counts, LAMBDA e : e.count > MinMentions)
           topics == [i \in DOMAIN kept |-> TrendTopic(kept[i])]
           keyed == [i \in DOMAIN topics |-> [k |-> topics[i].trend_score, v |-> topics[i]]]
           sorted == SortDesc(keyed, << >>)
           top == IF Len(sorted) <= TrendingLimit THEN sorted
                  ELSE SubSeq(sorted, 1, TrendingLimit)
       IN  trending' = [trending EXCEPT !.pc = "returned", !.source = "collect",
                                  !.topics = [i \in DOMAIN top |-> top[i].v]]
    /\ UNCHANGED outside_trend

\* KnowledgeSearchEngine.get_trending_topics: a topic for each of the first
\* `limit` buckets of the terms aggregation, in the order of the response
\* (the aggregation gives its buckets by doc_count descending, the order of a
\* terms aggregation when the request names none); [] when the search fails
get_trending_topics(buckets, failed) ==
    /\ trending.pc = "idle"
    /\ LET first == IF Len(buckets) <= TrendingLimit THEN buckets
                    ELSE SubSeq(buckets, 1, TrendingLimit)
       IN  trending' = [trending EXCEPT
                       !.pc = "returned", !.source = "engine",
                       !.keyword_counts = buckets,
                       !.topics = IF failed THEN << >>
                                  ELSE [i \in DOMAIN first |-> TrendTopic(first[i])]]
    /\ UNCHANGED outside_trend

TrendInit ==
    /\ WorkflowIdle /\ KbIdle /\ CacheIdle /\ TopicIdle /\ UnitIdle

\* doc_count of the buckets: no bucket has fewer documents than a later one
TrendNext ==
    \/ \E found \in (SUBSET TrendKeywords) \ { {} } : count_content(found)
    \/ collect_trending_topics
    \/ \E n \in 0..3, failed \in BOOLEAN :
          \E counts \in [1..n -> {1, 4, MaxMentions - 1, MaxMentions}] :
              /\ \A i, j \in 1..n : i < j => counts[i] >= counts[j]
              /\ get_trending_topics(
                    [i \in 1..n |-> [keyword |-> n + 1 - i, count |-> counts[i]]],
                    failed)

TrendSpec == TrendInit /\ [][TrendNext]_vars

\* place of a keyword in the order in which the keywords were first seen
FirstSeen(keyword) ==
    CHOOSE e \in DOMAIN trending.keyword_counts :
        trending.keyword_counts[e].keyword = keyword

QualityBehindStatus(a) ==
    a.status \in {"approved", "published"}
        => (a.quality_metrics # NoScore /\ a.quality_metrics >= ApproveMinScore)

MaxGenClock == 8

\* AIContentGenerator._cache_ttl, days
GenerationCacheTtl == 7
\* _cache_content: entries kept before the oldest is removed
GenerationCacheCapacity == 100

\* the styles asked for, and the one topic
GenStyles == {"motivational_finance", "philosophical_money"}

\* ContentTemplate._get_structure
structure(style) ==
    IF style = "philosophical_money"
    THEN << "quote", "historical_context", "modern_application", "reflection" >>
    ELSE << "hook", "problem", "wisdom", "practical_steps", "inspiration" >>

\* the sections whose model call may raise, by their place in the structure
FailurePatterns == SUBSET {1, 3}

\* _get_cache_key of the one topic and the style
content_cache_key(style) == << "content", style, 1 >>

\* no Content (None): a Content has at least one section
NoContent == << >>

\* AIContentGenerator._get_from_cache: the Content or None, and the dicts it
\* leaves
content_from_cache(cache, stamps, cache_key, now) ==
    IF cache_key \notin DOMAIN cache
    THEN [value |-> NoContent, cache |-> cache, stamps |-> stamps]
    ELSE IF now - stamps[cache_key] > GenerationCacheTtl
         THEN [value |-> NoContent, cache |-> Drop(cache, cache_key),
               stamps |-> Drop(stamps, cache_key)]
         ELSE [value |-> cache[cache_key], cache |-> cache, stamps |-> stamps]

\* _cache_content
cache_content(cache, stamps, cache_key, content, now) ==
    LET c == Put(cache, cache_key, content)
        t == Put(stamps, cache_key, now)
        oldest_key == CHOOSE k \in DOMAIN t : \A j \in DOMAIN t : t[k] <= t[j]
    IN  IF Cardinality(DOMAIN c) > GenerationCacheCapacity
        THEN [cache |-> Drop(c, oldest_key), stamps |-> Drop(t, oldest_key)]
        ELSE [cache |-> c, stamps |-> t]

\* the sections of the loop of generate_article_content: the text of the
\* model, or the placeholder "[Content generation failed for <section>]"
\* when the call raised
Sections(style, failed) ==
    [i \in 1..Len(structure(style)) |-> IF i \in failed THEN "placeholder" ELSE "text"]

\* generate_article_content(topic, style): the cached Content if there is
\* one; else one model call per section, the Content assembled from the
\* sections, cached and returned. failed: the sections whose call raises.
generate_article_content(style, failed) ==
    LET cache_key == content_cache_key(style)
        got == content_from_cache(generator.cache, generator.stamps, cache_key,
                                  generator.now)
        content == Sections(style, failed)
        kept == cache_content(got.cache, got.stamps, cache_key, content,
                              generator.now)
        before == IF generator.last.op = "generate" /\ generator.last.style = style
                  THEN generator.last.content ELSE NoContent
    IN  IF got.value # NoContent
        THEN generator' = [generator EXCEPT
                 !.last = [op |-> "generate", style |-> style, model_calls |-> 0,
                           content |-> got.value, before |-> before]]
        ELSE generator' = [generator EXCEPT
                 !.cache = kept.cache, !.stamps = kept.stamps,
                 !.last = [op |-> "generate", style |-> style,
                           model_calls |-> Len(structure(style)),
                           content |-> content, before |-> before]]

\* a day passes
generator_tick ==
    /\ generator.now < MaxGenClock
    /\ generator' = [generator EXCEPT !.now = @ + 1]

GeneratorInit ==
    /\ WorkflowIdle /\ KbIdle /\ CacheIdle /\ TopicIdle /\ UnitIdle

GeneratorNext ==
    \/ \E style \in GenStyles, failed \in FailurePatterns :
          generate_article_content(style, failed) /\ UNCHANGED outside_generator
    \/ generator_tick /\ UNCHANGED outside_generator

GeneratorSpec == GeneratorInit /\ [][GeneratorNext]_vars

\* a section of the content is the failure placeholder
HasPlaceholder(content) == \E i \in DOMAIN content : content[i] = "placeholder"

\* C31: failed generations are not cached. The generation cache holds no
\* Content with a failure placeholder, and a call of generate_article_content
\* that follows a call for the same topic and style in which a section failed
\* calls the model again: it does not return content with a placeholder
\* without a model call.
C31_FailedGenerationNotCached ==
    /\ \A k \in DOMAIN generator.cache : ~HasPlaceholder(generator.cache[k])
    /\ ( /\ generator.last.op = "generate"
         /\ generator.last.before # NoContent
         /\ HasPlaceholder(generator.last.before) )
       => generator.last.model_calls > 0

(* ======================================================================= *)
(* AnthropicModel.generate_content and its daily request limit             *)
(* (ai_content_generation.py). The callers are asyncio tasks sharing the   *)
(* one model object; a task is suspended only at its await of the          *)
(* provider's answer.                                                      *)
(* ======================================================================= *)

\* tasks that call generate_content
MaxCallers == 2
\* calls of generate_content made in all
MaxApiCalls == 4
\* the last date the clock reaches
MaxDay == 1
\* settings.ai.daily_request_limit as configured here (its default is 1000)
daily_request_limit == 2

Callers == 1..MaxCallers

\* _can_make_request: the counter and the reset date it leaves, and its answer
can_make_request(daily_usage, last_reset, current_date) ==
    LET usage == IF current_date > last_reset THEN 0 ELSE daily_usage
        reset == IF current_date > last_reset THEN current_date ELSE last_reset
    IN  [daily_usage |-> usage, last_reset |-> reset,
         allowed |-> usage < daily_request_limit]

\* generate_content up to its await: the rate-limit check, then either
\* ValueError("Rate limit exceeded") or the request sent to the provider
generate_content_begin(caller) ==
    LET checked == can_make_request(anthropic.daily_usage, anthropic.last_reset,
                                    anthropic.today)
        day == anthropic.today + 1
    IN  /\ caller \notin anthropic.awaiting
        /\ anthropic.made < MaxApiCalls
        /\ IF checked.allowed
           THEN anthropic' = [anthropic EXCEPT
                    !.daily_usage = checked.daily_usage,
                    !.last_reset = checked.last_reset,
                    !.made = @ + 1,
                    !.awaiting = @ \cup {caller},
                    !.sent_at_limit = @ \/ anthropic.sent[day] >= daily_request_limit,
                    !.sent = [@ EXCEPT ![day] = @ + 1]]
           ELSE anthropic' = [anthropic EXCEPT
                    !.daily_usage = checked.daily_usage,
                    !.last_reset = checked.last_reset,
                    !.made = @ + 1,
                    !.last = [op |-> "generate_content", caller |-> caller,
                              outcome |-> "rate_limited",
                              sent_today |-> anthropic.sent[day]]]

\* generate_content from the provider's answer on: _update_usage_stats and
\* the text, or the provider's error raised again (and nothing counted)
generate_content_end(caller, answered) ==
    /\ caller \in anthropic.awaiting
    /\ anthropic' = [anthropic EXCEPT
           !.awaiting = @ \ {caller},
           !.daily_usage = IF answered THEN @ + 1 ELSE @,
           !.last = [op |-> "generate_content", caller |-> caller,
                     outcome |-> IF answered THEN "content" ELSE "error",
                     sent_today |-> anthropic.sent[anthropic.today + 1]]]

\* midnight: datetime.now().date() is the next date
anthropic_midnight ==
    /\ anthropic.today < MaxDay
    /\ anthropic' = [anthropic EXCEPT !.today = @ + 1, !.sent = Append(@, 0)]

AnthropicInit ==
    /\ WorkflowIdle /\ KbIdle /\ CacheIdle /\ TopicIdle /\ UnitIdle

AnthropicNext ==
    \/ \E caller \in Callers :
          generate_content_begin(caller) /\ UNCHANGED outside_anthropic
    \/ \E caller \in Callers, answered \in BOOLEAN :
          generate_content_end(caller, answered) /\ UNCHANGED outside_anthropic
    \/ anthropic_midnight /\ UNCHANGED outside_anthropic

AnthropicSpec == AnthropicInit /\ [][AnthropicNext]_vars

\* C34: daily request limit. On no date has the provider received more than
\* daily_request_limit requests, and no request was sent to it by a call made
\* when the requests of that date had reached the limit.
C34_DailyRequestLimit ==
    /\ \A d \in DOMAIN anthropic.sent : anthropic.sent[d] <= daily_request_limit
    /\ ~anthropic.sent_at_limit

(* ======================================================================= *)
(* ContentScheduler.start_daily_schedule and stop (content_workflow.py).   *)
(* The clock counts half days from a midnight-to-noon half: the scheduled  *)
(* time (06:00) of each day falls on the odd values, 1, 3, 5, ...          *)
(* Every call of start_daily_schedule is a coroutine of its own on the     *)
(* event loop; all of them share the scheduler's is_running.               *)
(* ======================================================================= *)

\* calls of start_daily_schedule made in all
MaxLoops == 2
\* the last half day the clock reaches
MaxSchedClock == 4

\* next_run: the scheduled time of today, or of tomorrow "if next_run <= now"
NextRun(now) == IF now % 2 = 1 THEN now + 2 ELSE now + 1

\* start_daily_schedule up to its first sleep
schedule_start ==
    /\ Len(scheduler.loops) < MaxLoops
    /\ scheduler' = [scheduler EXCEPT
           !.is_running = TRUE,
           !.stopped = FALSE,
           !.loops = Append(@, [pc |-> "sleep",
                                next_run |-> NextRun(scheduler.now)])]

\* the sleep of loop i ends, at the scheduled time or later: the run starts
\* if is_running, else the while test ends the loop
schedule_wake(i) ==
    LET loop == scheduler.loops[i]
        count == IF loop.next_run \in DOMAIN scheduler.triggered
                 THEN scheduler.triggered[loop.next_run] ELSE 0
    IN  /\ loop.pc = "sleep"
        /\ scheduler.now >= loop.next_run
        /\ IF scheduler.is_running
           THEN scheduler' = [scheduler EXCEPT
                    !.loops[i].pc = "run",
                    !.triggered = Put(@, loop.next_run, count + 1),
                    !.late = @ \/ scheduler.stopped]
           ELSE scheduler' = [scheduler EXCEPT !.loops[i].pc = "exited"]

\* run_daily_generation has returned to loop i: the result is logged, then
\* the while test, the next next_run and the next sleep
schedule_run_done(i) ==
    /\ scheduler.loops[i].pc = "run"
    /\ IF scheduler.is_running
       THEN scheduler' = [scheduler EXCEPT
                !.loops[i] = [pc |-> "sleep", next_run |-> NextRun(scheduler.now)]]
       ELSE scheduler' = [scheduler EXCEPT !.loops[i].pc = "exited"]

\* ContentScheduler.stop
schedule_stop ==
    scheduler' = [scheduler EXCEPT !.is_running = FALSE, !.stopped = TRUE]

\* half a day passes
schedule_tick ==
    /\ scheduler.now < MaxSchedClock
    /\ scheduler' = [scheduler EXCEPT !.now = @ + 1]

ScheduleInit ==
    /\ WorkflowIdle /\ KbIdle /\ CacheIdle /\ TopicIdle /\ UnitIdle

ScheduleNext ==
    \/ schedule_start /\ UNCHANGED outside_scheduler
    \/ \E i \in 1..Len(scheduler.loops) :
          schedule_wake(i) /\ UNCHANGED outside_scheduler
    \/ \E i \in 1..Len(scheduler.loops) :
          schedule_run_done(i) /\ UNCHANGED outside_scheduler
    \/ schedule_stop /\ UNCHANGED outside_scheduler
    \/ schedule_tick /\ UNCHANGED outside_scheduler

\* time passes, a sleep that is over ends, a run returns
ScheduleSpec ==
    /\ ScheduleInit
    /\ [][ScheduleNext]_vars
    /\ WF_vars(schedule_tick /\ UNCHANGED outside_scheduler)
    /\ \A i \in 1..MaxLoops :
          /\ WF_vars(i <= Len(scheduler.loops) /\ schedule_wake(i)
                     /\ UNCHANGED outside_scheduler)
          /\ WF_vars(i <= Len(scheduler.loops) /\ schedule_run_done(i)
                     /\ UNCHANGED outside_scheduler)

\* every loop has exited, or sleeps until a time the clock does not reach
LoopsOver ==
    \A i \in 1..Len(scheduler.loops) :
        \/ scheduler.loops[i].pc = "exited"
        \/ /\ scheduler.loops[i].pc = "sleep"
           /\ scheduler.loops[i].next_run > MaxSchedClock

\* C35: whatever calls of start_daily_schedule and stop are made, each
\* scheduled time starts at most one workflow run; no run starts while stop
\* is the last call made; and when stop is the last call made, the loops
\* exit unless a start follows.
C35_SchedulerRunsOncePerTime ==
    /\ [](\A t \in DOMAIN scheduler.triggered : scheduler.triggered[t] <= 1)
    /\ [](~scheduler.late)
    /\ (scheduler.stopped ~> (LoopsOver \/ ~scheduler.stopped))
====
